---- MODULE Spec2Model ----
(***************************************************************************)
(* Scenario generation in src/src/services/ai.ts (generateScenario): the   *)
(* parsed reply of the generation model is assembled into a LogicScenario  *)
(* and post-processed so that the ___BLANK_<n>___ markers of the code      *)
(* template read 1, 2, 3, ... from top to bottom, the steps follow the     *)
(* markers and the "At Blank <n>" references of the texts are renumbered.  *)
(*                                                                         *)
(* Strings are sequences of one-character strings, positions are the       *)
(* 0-based offsets of the source; regular expressions are matched by the   *)
(* operators below, character by character.                                *)
(***************************************************************************)
EXTENDS Integers, Sequences, FiniteSets, TLC

\* Bounds of the explored inputs.
MaxSegs == 3
MaxSteps == 3

VARIABLES config, generated, scenario, foundBlanks, idMap, pc,
          view, activeScenario, isGenerating,
          \* the collections of the server and the requests it is serving
          users, tests, reqs, reportData,
          \* AssessmentView and the chat interviewer
          currentStep, isLoading, answeredSteps, stepResultsRef, advanceTimers,
          validation, testFinished, transcript, voiceClosure, lastReply,
          \* the fill-in-the-blanks view
          phase, answers, evalProgress, results, fbs, stepResults, feedbacks, fibPending,
          \* the connection cache of the serverless functions
          cached, connectCalls, callers

\* The state of App (src/src/App.tsx) around a call of generateScenario.
appVars == <<view, activeScenario, isGenerating>>

serverVars == <<users, tests, reqs, reportData>>

chatVars == <<currentStep, isLoading, answeredSteps, stepResultsRef, advanceTimers,
              validation, testFinished, transcript, voiceClosure, lastReply>>

fibVars == <<phase, answers, evalProgress, results, fbs, stepResults, feedbacks, fibPending>>

dbVars == <<cached, connectCalls, callers>>

\* The state generateScenario and the handlers of App that call it leave alone.
otherVars == <<serverVars, chatVars, fibVars, dbVars>>

vars == <<config, generated, scenario, foundBlanks, idMap, pc, view, activeScenario, isGenerating,
          otherVars>>

\* The requests the server is serving at a time, and the callers of connectDB.
Requests == {1, 2}

Callers == {1, 2, 3, 4}

\* A request slot nobody uses, an await nobody waits for.
NoRequest == [kind |-> "none", pc |-> "none", status |-> 0]

NoValidation == [state |-> "none"]

NoReport == [state |-> "none"]

\* The server with empty collections and no request.
ServerIdle ==
    /\ users = <<>>
    /\ tests = <<>>
    /\ reqs = [r \in Requests |-> NoRequest]
    /\ reportData = NoReport

\* useState(0) of AssessmentView and the first render of AiInterviewer
ChatIdle ==
    /\ currentStep = 0
    /\ isLoading = FALSE
    /\ answeredSteps = {}
    /\ stepResultsRef = <<>>
    /\ advanceTimers = 0
    /\ validation = NoValidation
    /\ testFinished = FALSE
    /\ transcript = FALSE
    /\ voiceClosure = [currentStep |-> 0, isLoading |-> FALSE]
    /\ lastReply = ""

\* The first render of FillInBlanks, before its scenario is known.
FibIdle ==
    /\ phase = "answering"
    /\ answers = <<>>
    /\ evalProgress = 0
    /\ results = <<>>
    /\ fbs = <<>>
    /\ stepResults = <<>>
    /\ feedbacks = <<>>
    /\ fibPending = NoValidation

\* let cached = { conn: null, promise: null }
DbIdle ==
    /\ cached = [conn |-> 0, promise |-> [attempt |-> 0, state |-> "null"]]
    /\ connectCalls = 0
    /\ callers = [c \in Callers |-> [pc |-> "idle", value |-> 0]]

OtherIdle == ServerIdle /\ ChatIdle /\ FibIdle /\ DbIdle

----------------------------------------------------------------------------
\* Characters, numbers and substrings

DigitChars == <<"0", "1", "2", "3", "4", "5", "6", "7", "8", "9">>

IsDigit(c) == \E d \in 1..Len(DigitChars) : DigitChars[d] = c

DigitVal(c) == (CHOOSE d \in 1..Len(DigitChars) : DigitChars[d] = c) - 1

IsSpace(c) == c \in {" ", "\n", "\t"}

\* Case folding of the 'i' flag, for the letters of "At Blank".
Lower(c) ==
    CASE c = "A" -> "a"
      [] c = "T" -> "t"
      [] c = "B" -> "b"
      [] c = "L" -> "l"
      [] c = "N" -> "n"
      [] c = "K" -> "k"
      [] OTHER -> c

\* String.prototype.substring(from, to), 0-based, to exclusive.
Substring(s, from, to) == SubSeq(s, from + 1, to)

\* parseInt of a run of decimal digits.
RECURSIVE ParseIntAcc(_, _)
ParseIntAcc(ds, acc) ==
    IF ds = <<>> THEN acc
    ELSE ParseIntAcc(Tail(ds), acc * 10 + DigitVal(Head(ds)))

ParseInt(ds) == ParseIntAcc(ds, 0)

\* `${n}` for a non-negative integer n.
RECURSIVE ToStr(_)
ToStr(n) ==
    IF n < 10 THEN <<DigitChars[n + 1]>>
    ELSE ToStr(n \div 10) \o <<DigitChars[(n % 10) + 1]>>

\* s has the literal lit at offset p.
StartsWithAt(s, p, lit) ==
    /\ p + Len(lit) <= Len(s)
    /\ Substring(s, p, p + Len(lit)) = lit

\* The same, ignoring case.
StartsWithAtCI(s, p, lit) ==
    /\ p + Len(lit) <= Len(s)
    /\ \A k \in 1..Len(lit) : Lower(s[p + k]) = Lower(lit[k])

\* Length of the run of digits (\d+) or of white space (\s+) at offset p.
RECURSIVE DigitRun(_, _)
DigitRun(s, p) ==
    IF p < Len(s) /\ IsDigit(s[p + 1]) THEN 1 + DigitRun(s, p + 1) ELSE 0

RECURSIVE SpaceRun(_, _)
SpaceRun(s, p) ==
    IF p < Len(s) /\ IsSpace(s[p + 1]) THEN 1 + SpaceRun(s, p + 1) ELSE 0

----------------------------------------------------------------------------
\* The marker pattern /___BLANK_(\d+)___/g

MarkerOpen == <<"_", "_", "_", "B", "L", "A", "N", "K", "_">>

MarkerClose == <<"_", "_", "_">>

\* Length of the match of the marker pattern at offset p, 0 if none.
MarkerMatchLen(s, p) ==
    IF StartsWithAt(s, p, MarkerOpen)
    THEN LET n == DigitRun(s, p + Len(MarkerOpen))
         IN  IF n > 0 /\ StartsWithAt(s, p + Len(MarkerOpen) + n, MarkerClose)
             THEN Len(MarkerOpen) + n + Len(MarkerClose)
             ELSE 0
    ELSE 0

\* The while loop over regex.exec: the matches from offset p on, left to
\* right, each search resuming where the last match ended.
RECURSIVE ScanFrom(_, _)
ScanFrom(s, p) ==
    IF p >= Len(s) THEN <<>>
    ELSE LET len == MarkerMatchLen(s, p)
         IN  IF len > 0
             THEN <<[originalId |-> ParseInt(Substring(s, p + Len(MarkerOpen),
                                                       p + len - Len(MarkerClose))),
                     index      |-> p,
                     marker     |-> Substring(s, p, p + len)]>>
                  \o ScanFrom(s, p + len)
             ELSE ScanFrom(s, p + 1)

ScanBlanks(template) == ScanFrom(template, 0)

\* The sort with the comparison reversed (b.index - a.index).
RECURSIVE InsertByIndexDescending(_, _)
InsertByIndexDescending(b, sorted) ==
    IF sorted = <<>> THEN <<b>>
    ELSE IF b.index > Head(sorted).index THEN <<b>> \o sorted
    ELSE <<Head(sorted)>> \o InsertByIndexDescending(b, Tail(sorted))

\* foundBlanks.sort((a, b) => a.index - b.index)
RECURSIVE InsertByIndex(_, _)
InsertByIndex(b, sorted) ==
    IF sorted = <<>> THEN <<b>>
    ELSE IF b.index < Head(sorted).index THEN <<b>> \o sorted
    ELSE <<Head(sorted)>> \o InsertByIndex(b, Tail(sorted))

RECURSIVE SortByIndex(_)
SortByIndex(blanks) ==
    IF blanks = <<>> THEN <<>>
    ELSE InsertByIndex(blanks[Len(blanks)], SortByIndex(SubSeq(blanks, 1, Len(blanks) - 1)))

\* The mapping that keeps the first entry of an originalId
\* (if (!idMap.has(b.originalId)) idMap.set(...)).
BuildIdMapFirstWins(blanks) ==
    [d \in {blanks[i].originalId : i \in 1..Len(blanks)} |->
        CHOOSE c \in 1..Len(blanks) :
            /\ blanks[c].originalId = d
            /\ \A j \in 1..Len(blanks) : blanks[j].originalId = d => j >= c]

\* idMap.set(b.originalId, i + 1) for each blank in turn: a later blank with
\* the same originalId overwrites the entry of an earlier one.
BuildIdMap(blanks) ==
    [d \in {blanks[i].originalId : i \in 1..Len(blanks)} |->
        CHOOSE c \in 1..Len(blanks) :
            /\ blanks[c].originalId = d
            /\ \A j \in 1..Len(blanks) : blanks[j].originalId = d => j <= c]

\* The lookup with a key that is never found (the matched text, not its number).
IdMapGetMissesKey(map, oldId) == 0

\* idMap.get(oldId), 0 standing for undefined.
IdMapGet(map, oldId) == IF oldId \in DOMAIN map THEN map[oldId] ELSE 0

----------------------------------------------------------------------------
\* 1. Rewrite Code Template with new markers

\* The new marker keeping the declared index of the blank.
NewMarkerDeclared(b, i) == MarkerOpen \o ToStr(b.originalId) \o MarkerClose

\* The new marker numbered from 0.
NewMarkerZeroBased(b, i) == MarkerOpen \o ToStr(i) \o MarkerClose

\* `___BLANK_${i + 1}___` for the blank b at 0-based rank i.
NewMarker(b, i) == MarkerOpen \o ToStr(i + 1) \o MarkerClose

\* The cursor advanced by the length of a marker of one digit.
NextLastIdxOneDigit(b) == b.index + Len(MarkerOpen) + 1 + Len(MarkerClose)

\* lastIdx = b.index + b.marker.length
NextLastIdx(b) == b.index + Len(b.marker)

\* The forEach that builds `rebuilt`: the state <<rebuilt, lastIdx>> after
\* the first n blanks.
RECURSIVE RebuildUpTo(_, _, _)
RebuildUpTo(template, blanks, n) ==
    IF n = 0 THEN <<<<>>, 0>>
    ELSE LET prev == RebuildUpTo(template, blanks, n - 1)
             b    == blanks[n]
         IN  <<prev[1] \o Substring(template, prev[2], b.index) \o NewMarker(b, n - 1),
               NextLastIdx(b)>>

RewriteTemplate(template, blanks) ==
    LET done == RebuildUpTo(template, blanks, Len(blanks))
    IN  done[1] \o Substring(template, done[2], Len(template))

----------------------------------------------------------------------------
\* 2. Re-order and Update Steps

AtWord == <<"A", "t">>

BlankWord == <<"B", "l", "a", "n", "k">>

AtBlank == <<"A", "t", " ", "B", "l", "a", "n", "k", " ">>

StepIdPrefix == <<"s", "t", "e", "p", "_">>

\* The pattern without its leading "At": Blank\s+ (flag i).
BlankOnlyMatchLen(s, p) ==
    IF StartsWithAtCI(s, p, BlankWord)
    THEN LET w2 == SpaceRun(s, p + Len(BlankWord))
         IN  IF w2 > 0 THEN Len(BlankWord) + w2 ELSE 0
    ELSE 0

\* Length of the match of At\s+Blank\s+ (flag i) at offset p, 0 if none.
AtBlankMatchLen(s, p) ==
    IF StartsWithAtCI(s, p, AtWord)
    THEN LET w1 == SpaceRun(s, p + Len(AtWord))
             q  == p + Len(AtWord) + w1
         IN  IF w1 > 0 /\ StartsWithAtCI(s, q, BlankWord)
             THEN LET w2 == SpaceRun(s, q + Len(BlankWord))
                  IN  IF w2 > 0 THEN Len(AtWord) + w1 + Len(BlankWord) + w2 ELSE 0
             ELSE 0
    ELSE 0

\* new RegExp(`At\\s+Blank\\s+${originalId}`, 'gi'): length of its match at p.
HeaderMatchLen(s, p, originalId) ==
    LET h == AtBlankMatchLen(s, p)
    IN  IF h > 0 /\ StartsWithAt(s, p + h, ToStr(originalId))
        THEN h + Len(ToStr(originalId))
        ELSE 0

\* instruction.replace(headerRegex, `At Blank ${newId}`)
RECURSIVE ReplaceHeaderFrom(_, _, _, _)
ReplaceHeaderFrom(s, p, originalId, newId) ==
    IF p >= Len(s) THEN <<>>
    ELSE LET len == HeaderMatchLen(s, p, originalId)
         IN  IF len > 0
             THEN AtBlank \o ToStr(newId) \o ReplaceHeaderFrom(s, p + len, originalId, newId)
             ELSE <<s[p + 1]>> \o ReplaceHeaderFrom(s, p + 1, originalId, newId)

ReplaceHeader(s, originalId, newId) == ReplaceHeaderFrom(s, 0, originalId, newId)

\* The old step looked up without the shift to 0-based.
OldStepIdxOneBased(b) == b.originalId

\* const oldStepIdx = b.originalId - 1
OldStepIdx(b) == b.originalId - 1

\* The step id numbered from 0.
StepIdZeroBased(newStepIdx) == StepIdPrefix \o ToStr(newStepIdx)

\* `step_${newStepIdx + 1}`
StepId(newStepIdx) == StepIdPrefix \o ToStr(newStepIdx + 1)

\* if (scenario.steps[oldStepIdx])
HasStep(steps, idx) == idx >= 0 /\ idx < Len(steps)

\* The step of blank b built anew at newStepIdx, its output left out.
RelocatedStepWithoutOutput(steps, b, newStepIdx) ==
    [id               |-> StepId(newStepIdx),
     instruction      |-> ReplaceHeader(steps[OldStepIdx(b) + 1].instruction, b.originalId,
                                        newStepIdx + 1),
     expectedAnswer   |-> steps[OldStepIdx(b) + 1].expectedAnswer,
     outputSimulation |-> <<>>]

\* { ...oldStep, id, instruction }: the copy of the step of blank b, moved to
\* newStepIdx.
RelocatedStep(steps, b, newStepIdx) ==
    LET step == steps[OldStepIdx(b) + 1]
    IN  [step EXCEPT !.id = StepId(newStepIdx),
                     !.instruction = ReplaceHeader(step.instruction, b.originalId,
                                                   newStepIdx + 1)]

\* Fallback for mismatch
SentinelStep(newStepIdx) ==
    [id               |-> StepId(newStepIdx),
     instruction      |-> <<"M", "i", "s", "s", "i", "n", "g", " ", "s", "t", "e", "p", " ", "d", "e", "f", "i", "n", "i", "t", "i", "o", "n", ".">>,
     expectedAnswer   |-> <<"?", "?", "?">>,
     outputSimulation |-> <<>>]

\* An array slot that was never assigned.
EmptySlot == [empty |-> TRUE]

\* The forEach without its fallback branch: a slot without a step stays empty.
NewStepsNoFallback(steps, blanks) ==
    [i \in 1..Len(blanks) |->
        IF HasStep(steps, OldStepIdx(blanks[i]))
        THEN RelocatedStep(steps, blanks[i], i - 1)
        ELSE EmptySlot]

\* new Array(n) filled by the forEach over foundBlanks.
NewSteps(steps, blanks) ==
    [i \in 1..Len(blanks) |->
        IF HasStep(steps, OldStepIdx(blanks[i]))
        THEN RelocatedStep(steps, blanks[i], i - 1)
        ELSE SentinelStep(i - 1)]

\* newSteps.filter(s => !!s)
RECURSIVE FilterTruthy(_)
FilterTruthy(slots) ==
    IF slots = <<>> THEN <<>>
    ELSE IF Head(slots) = EmptySlot THEN FilterTruthy(Tail(slots))
    ELSE <<Head(slots)>> \o FilterTruthy(Tail(slots))

\* The remap that leaves out the blanks without a step.
RemapStepsDropMissing(steps, blanks) == FilterTruthy(NewStepsNoFallback(steps, blanks))

RemapSteps(steps, blanks) == FilterTruthy(NewSteps(steps, blanks))

----------------------------------------------------------------------------
\* 3. Update Context Markdown

\* Length of the match of /At\s+Blank\s+(\d+)/gi at offset p, 0 if none.
ContextMatchLen(s, p) ==
    IF AtBlankMatchLen(s, p) > 0 /\ DigitRun(s, p + AtBlankMatchLen(s, p)) > 0
    THEN AtBlankMatchLen(s, p) + DigitRun(s, p + AtBlankMatchLen(s, p))
    ELSE 0

\* The callback: (match, p1) => newId ? `At Blank ${newId}` : match
ContextReplacement(match, p1, map) ==
    IF IdMapGet(map, ParseInt(p1)) # 0
    THEN AtBlank \o ToStr(IdMapGet(map, ParseInt(p1)))
    ELSE match

\* context.replace(/At\s+Blank\s+(\d+)/gi, callback): the result from offset p
\* on, the scan resuming after each match.
ReplaceContextFrom(s, p, map) ==
    LET rest[q \in 0..Len(s)] ==
            IF q >= Len(s) THEN <<>>
            ELSE IF ContextMatchLen(s, q) > 0
                 THEN ContextReplacement(
                          Substring(s, q, q + ContextMatchLen(s, q)),
                          Substring(s, q + AtBlankMatchLen(s, q), q + ContextMatchLen(s, q)),
                          map)
                      \o rest[q + ContextMatchLen(s, q)]
                 ELSE <<s[q + 1]>> \o rest[q + 1]
    IN  rest[p]

\* The rewrite done one declared index after the other, each pass over the
\* result of the pass before.
RECURSIVE ReplaceEachKey(_, _, _)
ReplaceEachKey(s, keys, map) ==
    IF keys = {} THEN s
    ELSE LET d == CHOOSE k \in keys : \A other \in keys : k <= other
         IN  ReplaceEachKey(ReplaceHeader(s, d, map[d]), keys \ {d}, map)

RewriteContextSequential(context, map) == ReplaceEachKey(context, DOMAIN map, map)

RewriteContext(context, map) == ReplaceContextFrom(context, 0, map)

----------------------------------------------------------------------------
\* The replies of the generation model that are explored

Marker(ds) == MarkerOpen \o ds \o MarkerClose

\* Pieces a code template is made of: markers, text with a line break, and
\* an unfinished marker.
Segments ==
    { Marker(<<"1">>), Marker(<<"2">>), Marker(<<"3">>), <<"x", " ", "=", "\n">>, MarkerOpen }

RECURSIVE Flatten(_)
Flatten(segs) == IF segs = <<>> THEN <<>> ELSE Head(segs) \o Flatten(Tail(segs))

Templates ==
    { Flatten(segs) : segs \in UNION { [1..n -> Segments] : n \in 0..MaxSegs } }
    \cup { Marker(<<"0">>) \o <<" ">> \o Marker(<<"0", "2">>),
           Marker(<<"1", "2">>) \o Marker(<<"1">>) \o <<"_">> \o Marker(<<"1", "2">>) }

TextStyles == {"plain", "loose", "bare", "prefix", "cross", "nocontext"}

IdStyles == {"absent", "custom"}

\* The instruction the reply gives for its k-th step.
InstructionOf(style, k) ==
    CASE style = "loose"  -> <<"a", "t", " ", " ", "b", "l", "a", "n", "k", " ">> \o ToStr(k) \o <<":", " ", "x">>
      [] style = "bare"   -> <<"B", "l", "a", "n", "k", " ">> \o ToStr(k)
      [] style = "prefix" -> <<"A", "t", " ", "B", "l", "a", "n", "k", " ">> \o ToStr(k) \o <<"0">>
      [] style = "cross"  -> <<"A", "t", " ", "B", "l", "a", "n", "k", " ">> \o ToStr((k % 3) + 1) \o <<" ", "a", "t", " ", "B", "l", "a", "n", "k", " ">> \o ToStr(k)
      [] OTHER            -> <<"A", "t", " ", "B", "l", "a", "n", "k", " ">> \o ToStr(k) \o <<":", " ", "x">>

ContextOf(style) ==
    CASE style = "loose"     -> <<"A", "T", " ", "B", "L", "A", "N", "K", " ", "1", "\n", "a", "t", "\t", "b", "l", "a", "n", "k", " ", "2">>
      [] style = "bare"      -> <<"S", "e", "e", " ", "B", "l", "a", "n", "k", " ", "1", " ", "a", "n", "d", " ", "B", "l", "a", "n", "k", " ", "2", ".">>
      [] style = "prefix"    -> <<"A", "t", " ", "B", "l", "a", "n", "k", " ", "1", "2", ",", " ", "A", "t", " ", "B", "l", "a", "n", "k", " ", "0", "1">>
      [] style = "cross"     -> <<"A", "t", " ", "B", "l", "a", "n", "k", " ", "3", " ", "A", "t", " ", "B", "l", "a", "n", "k", " ", "9">>
      [] style = "nocontext" -> <<>>
      [] OTHER               -> <<"A", "t", " ", "B", "l", "a", "n", "k", " ", "1", ",", " ", "A", "t", " ", "B", "l", "a", "n", "k", " ", "2", ",", " ", "A", "t", " ", "B", "l", "a", "n", "k", " ", "3">>

GeneratedSteps(n, style, ids) ==
    [k \in 1..n |->
        [id               |-> IF ids = "absent" THEN <<>> ELSE <<"q">> \o ToStr(k),
         instruction      |-> InstructionOf(style, k),
         expectedAnswer   |-> <<"a">> \o ToStr(k),
         outputSimulation |-> <<"o">> \o ToStr(k)]]

\* The template, steps and context of the example of two swapped blanks.
SwappedExample ==
    [context      |-> <<"S", "e", "e", " ", "B", "l", "a", "n", "k", " ", "1", " ", "a", "n", "d", " ", "B", "l", "a", "n", "k", " ", "2", ".">>,
     codeTemplate |-> <<"A", " ", "_", "_", "_", "B", "L", "A", "N", "K", "_", "2", "_", "_", "_", " ", "B", " ", "_", "_", "_", "B", "L", "A", "N", "K", "_", "1", "_", "_", "_", " ", "C">>,
     steps        |-> << [id |-> <<"s", "t", "e", "p", "_", "1">>, instruction |-> <<"A", "t", " ", "B", "l", "a", "n", "k", " ", "1", ":", " ", "f", "i", "r", "s", "t">>,
                          expectedAnswer |-> <<>>, outputSimulation |-> <<>>],
                         [id |-> <<"s", "t", "e", "p", "_", "2">>, instruction |-> <<"A", "t", " ", "B", "l", "a", "n", "k", " ", "2", ":", " ", "s", "e", "c", "o", "n", "d">>,
                          expectedAnswer |-> <<>>, outputSimulation |-> <<>>] >>]

GeneratedReplies ==
    { [context      |-> ContextOf(style),
       codeTemplate |-> t,
       steps        |-> GeneratedSteps(n, style, ids)] :
         t \in Templates, n \in 0..MaxSteps, style \in TextStyles, ids \in IdStyles }
    \cup {SwappedExample}

Configs ==
    { [id |-> "ai-docker", title |-> "Docker", description |-> "Containers",
       difficulty |-> "Junior", environment |-> "Docker"],
      [id |-> "ai-custom", title |-> "SQL", description |-> "Queries",
       difficulty |-> "Senior", environment |-> "Cloud"] }

NoScenario ==
    [id |-> "", title |-> "", description |-> "", difficulty |-> "", environment |-> "",
     context |-> <<>>, codeTemplate |-> <<>>, steps |-> <<>>]

----------------------------------------------------------------------------
\* generateScenario, from the parsed reply to the returned scenario

\* The validation that also requires one step per marker.
InvalidStructureStrict(g) ==
    g.context = <<>> \/ Len(g.steps) # Len(ScanBlanks(g.codeTemplate))

\* The validation without the test for an empty steps list.
InvalidStructureLenient(g) == g.context = <<>>

\* if (!generated.context || !Array.isArray(generated.steps) || generated.steps.length === 0)
InvalidStructure(g) == g.context = <<>> \/ Len(g.steps) = 0

\* Assemble into a LogicScenario
AssembleScenario(cfg, g) ==
    [id           |-> cfg.id,
     title        |-> cfg.title,
     description  |-> cfg.description,
     difficulty   |-> cfg.difficulty,
     environment  |-> cfg.environment,
     context      |-> g.context,
     codeTemplate |-> g.codeTemplate,
     steps        |-> [i \in 1..Len(g.steps) |->
                         [id               |-> IF g.steps[i].id # <<>> THEN g.steps[i].id
                                               ELSE StepId(i - 1),
                          instruction      |-> g.steps[i].instruction,
                          expectedAnswer   |-> g.steps[i].expectedAnswer,
                          outputSimulation |-> g.steps[i].outputSimulation]]]

\* The guard dropped: the rewrite runs for every template.
HasBlanksAlways(blanks) == TRUE

\* The guard with its test inverted.
HasBlanksInverted(blanks) == Len(blanks) = 0

\* if (foundBlanks.length > 0)
HasBlanks(blanks) == Len(blanks) > 0

\* The whole post-processing block applied to a scenario.
PostProcess(sc) ==
    IF sc.codeTemplate = <<>> THEN sc
    ELSE LET blanks == SortByIndex(ScanBlanks(sc.codeTemplate))
             map    == BuildIdMap(blanks)
         IN  IF ~HasBlanks(blanks) THEN sc
             ELSE [sc EXCEPT !.codeTemplate = RewriteTemplate(sc.codeTemplate, blanks),
                             !.steps = RemapSteps(sc.steps, blanks),
                             !.context = IF sc.context # <<>>
                                         THEN RewriteContext(sc.context, map)
                                         ELSE sc.context]

\* scenarios of src/src/data/scenario.ts, their texts abbreviated.
StaticScenarios ==
    { [id |-> "k8s-crashloop", title |-> "Kubernetes CrashLoopBackOff",
       description |-> "Debug a failing pod in a production cluster.",
       difficulty |-> "Senior", environment |-> "k8s-prod-us-east",
       context |-> <<"#", " ", "K", "u", "b", "e", "r", "n", "e", "t", "e", "s">>, codeTemplate |-> <<>>,
       steps |-> << [id |-> <<"s", "t", "e", "p", "_", "1">>, instruction |-> <<"l", "i", "s", "t", " ", "a", "l", "l", " ", "p", "o", "d", "s">>,
                     expectedAnswer |-> <<"k", "u", "b", "e", "c", "t", "l", " ", "g", "e", "t", " ", "p", "o", "d", "s", " ", "-", "n", " ", "p", "a", "y", "m", "e", "n", "t", "s">>,
                     outputSimulation |-> <<"N", "A", "M", "E">>] >>],
      [id |-> "docker-fill-blanks", title |-> "Docker: Build a Java Deployment",
       description |-> "Write Dockerfile commands to deploy a Java WAR application.",
       difficulty |-> "Mid", environment |-> "docker-build-env",
       context |-> <<"#", " ", "D", "o", "c", "k", "e", "r">>, codeTemplate |-> <<>>,
       steps |-> << [id |-> <<"b", "l", "a", "n", "k", "_", "1">>, instruction |-> <<"d", "e", "f", "i", "n", "e", " ", "t", "h", "e", " ", "b", "a", "s", "e", " ", "i", "m", "a", "g", "e">>,
                     expectedAnswer |-> <<"F", "R", "O", "M", " ", "j", "a", "v", "a", ":", "8", "-", "j", "d", "k", "-", "a", "l", "p", "i", "n", "e">>,
                     outputSimulation |-> <<>>] >>] }

\* useState<LogicScenario>(scenarios[0])
FirstScenario == CHOOSE s \in StaticScenarios : s.id = "k8s-crashloop"

\* generateScenario has parsed the reply of the model; the handler of App
\* that called it is waiting, with the state App had at its first render.
Init ==
    /\ config \in Configs
    /\ generated \in GeneratedReplies
    /\ scenario = NoScenario
    /\ foundBlanks = <<>>
    /\ idMap = <<>>
    /\ pc = "Parsed"
    /\ view = "landing"
    /\ activeScenario = FirstScenario
    /\ isGenerating = TRUE
    /\ OtherIdle

\* throw new Error("Invalid scenario structure returned by AI.")
RejectInvalid ==
    /\ pc = "Parsed"
    /\ InvalidStructure(generated)
    /\ pc' = "Failed"
    /\ UNCHANGED <<config, generated, scenario, foundBlanks, idMap>>
    /\ UNCHANGED appVars
    /\ UNCHANGED otherVars

Receive ==
    /\ pc = "Parsed"
    /\ ~InvalidStructure(generated)
    /\ scenario' = AssembleScenario(config, generated)
    /\ pc' = "Received"
    /\ UNCHANGED <<config, generated, foundBlanks, idMap>>
    /\ UNCHANGED appVars
    /\ UNCHANGED otherVars

\* if (scenario.codeTemplate) is false: the block is skipped.
SkipEmptyTemplate ==
    /\ pc = "Received"
    /\ scenario.codeTemplate = <<>>
    /\ pc' = "Assembled"
    /\ UNCHANGED <<config, generated, scenario, foundBlanks, idMap>>
    /\ UNCHANGED appVars
    /\ UNCHANGED otherVars

Scan ==
    /\ pc = "Received"
    /\ scenario.codeTemplate # <<>>
    /\ foundBlanks' = ScanBlanks(scenario.codeTemplate)
    /\ pc' = "Scanned"
    /\ UNCHANGED <<config, generated, scenario, idMap>>
    /\ UNCHANGED appVars
    /\ UNCHANGED otherVars

Resolve ==
    /\ pc = "Scanned"
    /\ foundBlanks' = SortByIndex(foundBlanks)
    /\ idMap' = BuildIdMap(foundBlanks')
    /\ pc' = "Resolved"
    /\ UNCHANGED <<config, generated, scenario>>
    /\ UNCHANGED appVars
    /\ UNCHANGED otherVars

ShortCircuit ==
    /\ pc = "Resolved"
    /\ ~HasBlanks(foundBlanks)
    /\ pc' = "Assembled"
    /\ UNCHANGED <<config, generated, scenario, foundBlanks, idMap>>
    /\ UNCHANGED appVars
    /\ UNCHANGED otherVars

RewriteTemplateStage ==
    /\ pc = "Resolved"
    /\ HasBlanks(foundBlanks)
    /\ scenario' = [scenario EXCEPT
                       !.codeTemplate = RewriteTemplate(scenario.codeTemplate, foundBlanks)]
    /\ pc' = "TemplateRewritten"
    /\ UNCHANGED <<config, generated, foundBlanks, idMap>>
    /\ UNCHANGED appVars
    /\ UNCHANGED otherVars

RemapStepsStage ==
    /\ pc = "TemplateRewritten"
    /\ scenario' = [scenario EXCEPT !.steps = RemapSteps(scenario.steps, foundBlanks)]
    /\ pc' = "StepsRemapped"
    /\ UNCHANGED <<config, generated, foundBlanks, idMap>>
    /\ UNCHANGED appVars
    /\ UNCHANGED otherVars

RewriteContextStage ==
    /\ pc = "StepsRemapped"
    /\ scenario' = [scenario EXCEPT
                       !.context = IF scenario.context # <<>>
                                   THEN RewriteContext(scenario.context, idMap)
                                   ELSE scenario.context]
    /\ pc' = "ContextRewritten"
    /\ UNCHANGED <<config, generated, foundBlanks, idMap>>
    /\ UNCHANGED appVars
    /\ UNCHANGED otherVars

\* return scenario
Return ==
    /\ pc = "ContextRewritten"
    /\ pc' = "Assembled"
    /\ UNCHANGED <<config, generated, scenario, foundBlanks, idMap>>
    /\ UNCHANGED appVars
    /\ UNCHANGED otherVars

Next ==
    \/ RejectInvalid
    \/ Receive
    \/ SkipEmptyTemplate
    \/ Scan
    \/ Resolve
    \/ ShortCircuit
    \/ RewriteTemplateStage
    \/ RemapStepsStage
    \/ RewriteContextStage
    \/ Return

Spec == Init /\ [][Next]_vars

\* A smaller set of replies: templates of up to two pieces, up to two steps.
FewReplies ==
    { [context      |-> ContextOf(style),
       codeTemplate |-> Flatten(segs),
       steps        |-> GeneratedSteps(n, style, "absent")] :
         segs \in UNION { [1..k -> Segments] : k \in 0..2 },
         n \in 0..2, style \in {"plain", "prefix", "nocontext"} }

InitFew ==
    /\ config \in Configs
    /\ generated \in FewReplies
    /\ scenario = NoScenario
    /\ foundBlanks = <<>>
    /\ idMap = <<>>
    /\ pc = "Parsed"
    /\ view = "landing"
    /\ activeScenario = FirstScenario
    /\ isGenerating = TRUE
    /\ OtherIdle

\* generateScenario is synchronous from the parsed reply on: a run that can
\* take a step takes it.
FairSpec == InitFew /\ [][Next]_vars /\ WF_vars(Next)

----------------------------------------------------------------------------
\* App: the handlers that call generateScenario (src/src/App.tsx)

\* The locals of generateScenario before a call.
NoConfig == [id |-> "", title |-> "", description |-> "", difficulty |-> "", environment |-> ""]

NoReply == [context |-> <<>>, codeTemplate |-> <<>>, steps |-> <<>>]

\* The config handleOnboardingComplete builds from the user's topic.
CustomConfig == CHOOSE c \in Configs : c.id = "ai-custom"

\* aiScenarioConfigs
AiScenarioConfigs == Configs \ {CustomConfig}

\* The replies explored with App: no template, a template without marker,
\* two swapped markers, a marker without its step; with and without context,
\* with no step, one step or two.
AppTemplates ==
    { <<>>,
      <<"x", " ", "=", "\n">>,
      Marker(<<"2">>) \o <<"x", " ", "=", "\n">> \o Marker(<<"1">>),
      Marker(<<"3">>) \o Marker(<<"1">>) }

AppReplies ==
    { [context      |-> ContextOf(style),
       codeTemplate |-> t,
       steps        |-> GeneratedSteps(n, style, "absent")] :
         t \in AppTemplates, n \in 0..2, style \in {"plain", "nocontext"} }

\* useState('landing'), useState(scenarios[0]), useState(false); no call of
\* generateScenario is running.
AppInit ==
    /\ view = "landing"
    /\ activeScenario = FirstScenario
    /\ isGenerating = FALSE
    /\ pc = "Idle"
    /\ config = NoConfig
    /\ generated = NoReply
    /\ scenario = NoScenario
    /\ foundBlanks = <<>>
    /\ idMap = <<>>
    /\ OtherIdle

\* Between two awaits the event loop runs the user's clicks; from the parsed
\* reply to the handler's finally block nothing is awaited.
UserTurn == pc \in {"Idle", "Registering", "Fetching"}

pipelineVars == <<config, generated, scenario, foundBlanks, idMap, pc>>

\* handleStartScenario, from a card of the landing page
StartScenario ==
    /\ UserTurn
    /\ view = "landing"
    /\ \E sc \in StaticScenarios : activeScenario' = sc
    /\ view' = "assessment"
    /\ UNCHANGED isGenerating
    /\ UNCHANGED pipelineVars
    /\ UNCHANGED otherVars

\* onStartTest={() => setView('onboarding')}
StartTest ==
    /\ UserTurn
    /\ view = "landing"
    /\ view' = "onboarding"
    /\ UNCHANGED <<activeScenario, isGenerating>>
    /\ UNCHANGED pipelineVars
    /\ UNCHANGED otherVars

\* onBack={() => setView('landing')}
Back ==
    /\ UserTurn
    /\ view = "assessment"
    /\ view' = "landing"
    /\ UNCHANGED <<activeScenario, isGenerating>>
    /\ UNCHANGED pipelineVars
    /\ UNCHANGED otherVars

\* handleStartAIScenario up to its await
StartAIScenario ==
    /\ pc = "Idle"
    /\ view = "landing"
    /\ ~isGenerating
    /\ isGenerating' = TRUE
    /\ \E cfg \in AiScenarioConfigs : config' = cfg
    /\ pc' = "Fetching"
    /\ UNCHANGED <<view, activeScenario, generated, scenario, foundBlanks, idMap>>
    /\ UNCHANGED otherVars

\* handleOnboardingComplete up to await registerUser(userData)
OnboardingComplete ==
    /\ pc = "Idle"
    /\ view = "onboarding"
    /\ isGenerating' = TRUE
    /\ pc' = "Registering"
    /\ UNCHANGED <<view, activeScenario, config, generated, scenario, foundBlanks, idMap>>
    /\ UNCHANGED otherVars

\* registerUser resolved: generateScenario is called with the custom config
Registered ==
    /\ pc = "Registering"
    /\ config' = CustomConfig
    /\ pc' = "Fetching"
    /\ UNCHANGED <<generated, scenario, foundBlanks, idMap>>
    /\ UNCHANGED appVars
    /\ UNCHANGED otherVars

\* registerUser rejected
RegisterFailed ==
    /\ pc = "Registering"
    /\ pc' = "Failed"
    /\ UNCHANGED <<config, generated, scenario, foundBlanks, idMap>>
    /\ UNCHANGED appVars
    /\ UNCHANGED otherVars

\* if (!API_KEY) throw new Error("API Key is missing.")
MissingApiKey ==
    /\ pc = "Fetching"
    /\ pc' = "Failed"
    /\ UNCHANGED <<config, generated, scenario, foundBlanks, idMap>>
    /\ UNCHANGED appVars
    /\ UNCHANGED otherVars

\* if (data.error) throw new Error("Failed to generate scenario.")
ApiError ==
    /\ pc = "Fetching"
    /\ pc' = "Failed"
    /\ UNCHANGED <<config, generated, scenario, foundBlanks, idMap>>
    /\ UNCHANGED appVars
    /\ UNCHANGED otherVars

\* JSON.parse(cleaned) throws
ParseError ==
    /\ pc = "Fetching"
    /\ pc' = "Failed"
    /\ UNCHANGED <<config, generated, scenario, foundBlanks, idMap>>
    /\ UNCHANGED appVars
    /\ UNCHANGED otherVars

\* const generated = JSON.parse(cleaned)
ReplyParsed ==
    /\ pc = "Fetching"
    /\ \E r \in AppReplies : generated' = r
    /\ pc' = "Parsed"
    /\ UNCHANGED <<config, scenario, foundBlanks, idMap>>
    /\ UNCHANGED appVars
    /\ UNCHANGED otherVars

\* A call that hands its scenario over before the steps are remapped.
ReturnedEarly(p) == p \in {"TemplateRewritten", "Assembled"}

\* return scenario: the awaited promise resolves
Returned(p) == p = "Assembled"

\* setActiveScenario(generated); setView('assessment'); finally setIsGenerating(false)
HandleSuccess ==
    /\ Returned(pc)
    /\ activeScenario' = scenario
    /\ view' = "assessment"
    /\ isGenerating' = FALSE
    /\ pc' = "Idle"
    /\ config' = NoConfig
    /\ generated' = NoReply
    /\ scenario' = NoScenario
    /\ foundBlanks' = <<>>
    /\ idMap' = <<>>
    /\ UNCHANGED otherVars

\* catch (e) { console.error; alert }; finally setIsGenerating(false)
HandleFailure ==
    /\ pc = "Failed"
    /\ isGenerating' = FALSE
    /\ pc' = "Idle"
    /\ config' = NoConfig
    /\ generated' = NoReply
    /\ scenario' = NoScenario
    /\ foundBlanks' = <<>>
    /\ idMap' = <<>>
    /\ UNCHANGED <<view, activeScenario>>
    /\ UNCHANGED otherVars

AppNext ==
    \/ StartScenario
    \/ StartTest
    \/ Back
    \/ StartAIScenario
    \/ OnboardingComplete
    \/ Registered
    \/ RegisterFailed
    \/ MissingApiKey
    \/ ApiError
    \/ ParseError
    \/ ReplyParsed
    \/ Next
    \/ HandleSuccess
    \/ HandleFailure

AppSpec == AppInit /\ [][AppNext]_vars

----------------------------------------------------------------------------
\* The server: POST /api/tests/submit (Express route and serverless handler),
\* the read routes, POST /api/users/register

\* Bound of the submitted step lists.
MaxSubmitted == 3

notServerVars == <<pipelineVars, appVars, chatVars, fibVars, dbVars>>

\* Step results as a client may send them: graded in three tiers, or in the
\* older shape with a correct flag and no status.
GradedCorrect == [status |-> "correct", correct |-> TRUE]

GradedPartial == [status |-> "partially_correct", correct |-> FALSE]

GradedIncorrect == [status |-> "incorrect", correct |-> FALSE]

LegacyCorrect == [status |-> "", correct |-> TRUE]

ThreeTier == {"correct", "partially_correct", "incorrect"}

Repeat(x, n) == [i \in 1..n |-> x]

\* The step lists explored: the score depends on the number of steps of each
\* kind only.
SubmittedLists ==
    { Repeat(GradedCorrect, n[1]) \o Repeat(GradedPartial, n[2])
        \o Repeat(GradedIncorrect, n[3]) \o Repeat(LegacyCorrect, n[4]) :
        n \in { m \in [1..4 -> 0..MaxSubmitted] : m[1] + m[2] + m[3] + m[4] <= MaxSubmitted } }

\* req.body.steps: an array, absent, or a value that is not an array.
ArrayOf(items) == [kind |-> "array", items |-> items]

NoSteps == [kind |-> "absent", items |-> <<>>]

StepsNotArray == [kind |-> "string", items |-> <<>>]

SubmitBody(userId, topic, difficulty, steps) ==
    [userId |-> userId, topic |-> topic, difficulty |-> difficulty, steps |-> steps,
     aiSummary |-> ""]

\* The bodies of the submit requests explored: complete ones with every step
\* list, and one for each way of failing the validation.
SubmitBodies ==
    { SubmitBody("u1", "Python", "Medium", ArrayOf(items)) : items \in SubmittedLists }
    \cup { SubmitBody("", "Python", "Medium", ArrayOf(<<GradedCorrect>>)),
           SubmitBody("u1", "", "Medium", ArrayOf(<<GradedCorrect>>)),
           SubmitBody("u1", "Python", "", ArrayOf(<<GradedCorrect>>)),
           SubmitBody("u1", "Python", "Medium", NoSteps),
           SubmitBody("u1", "Python", "Medium", StepsNotArray) }

\* A number as JavaScript computes it: an integer here, or NaN.
Num(n) == [isNaN |-> FALSE, value |-> n]

NaN == [isNaN |-> TRUE, value |-> 0]

\* Math.round(num / den) for num >= 0, den >= 0: 0 / 0 is NaN.
MathRound(num, den) == IF den = 0 THEN NaN ELSE Num((2 * num + den) \div (2 * den))

\* array.filter(pred).length, for the truth values of pred on the elements
CountTrue(flags) == Cardinality({ k \in DOMAIN flags : flags[k] })

\* s.status === 'correct' || (!s.status && s.correct)
CountsAsCorrect(s) == s.status = "correct" \/ (s.status = "" /\ s.correct)

\* s.status === 'partially_correct'
CountsAsPartial(s) == s.status = "partially_correct"

\* The score that counts a partial answer as a full one.
ServerScoreFullPartial(steps) ==
    MathRound(100 * (2 * CountTrue([k \in DOMAIN steps |-> CountsAsCorrect(steps[k])])
                       + 2 * CountTrue([k \in DOMAIN steps |-> CountsAsPartial(steps[k])])),
              2 * Len(steps))

\* Math.round(((correctCount + partialCount * 0.5) / totalSteps) * 100)
ServerScore(steps) ==
    MathRound(100 * (2 * CountTrue([k \in DOMAIN steps |-> CountsAsCorrect(steps[k])])
                       + CountTrue([k \in DOMAIN steps |-> CountsAsPartial(steps[k])])),
              2 * Len(steps))

\* The same computation in the serverless handler.
HandlerScore(steps) ==
    MathRound(100 * (2 * CountTrue([k \in DOMAIN steps |-> CountsAsCorrect(steps[k])])
                       + CountTrue([k \in DOMAIN steps |-> CountsAsPartial(steps[k])])),
              2 * Len(steps))

\* !userId || !topic || !difficulty || !steps || !Array.isArray(steps)
MissingRequiredFields(body) ==
    \/ body.userId = ""
    \/ body.topic = ""
    \/ body.difficulty = ""
    \/ body.steps.kind # "array"

\* The document handed to TestResult.create
TestResultOf(via, body) ==
    [userId         |-> body.userId,
     topic          |-> body.topic,
     difficulty     |-> body.difficulty,
     totalSteps     |-> Len(body.steps.items),
     correctAnswers |-> CountTrue([k \in DOMAIN body.steps.items |->
                                      CountsAsCorrect(body.steps.items[k])]),
     score          |-> IF via = "serverless" THEN HandlerScore(body.steps.items)
                        ELSE ServerScore(body.steps.items),
     steps          |-> body.steps.items,
     aiSummary      |-> body.aiSummary]

Free(r) == reqs[r].kind = "none"

\* A submit request reaches the Express route or the serverless handler.
SubmitArrives(r) ==
    /\ Free(r)
    /\ \E body \in SubmitBodies, via \in {"express", "serverless"}, method \in {"POST", "GET"} :
           /\ via = "express" => method = "POST"
           /\ reqs' = [reqs EXCEPT ![r] =
                  [kind |-> "submit", via |-> via, method |-> method, body |-> body,
                   pc |-> "received", doc |-> TestResultOf(via, SubmitBody("", "", "", NoSteps)),
                   status |-> 0]]
    /\ UNCHANGED <<users, tests, reportData>>
    /\ UNCHANGED notServerVars

\* if (req.method !== 'POST') return res.status(405)
MethodNotAllowed(r) ==
    /\ reqs[r].kind = "submit"
    /\ reqs[r].pc = "received"
    /\ reqs[r].via = "serverless"
    /\ reqs[r].method # "POST"
    /\ reqs' = [reqs EXCEPT ![r].pc = "done", ![r].status = 405]
    /\ UNCHANGED <<users, tests, reportData>>
    /\ UNCHANGED notServerVars

\* The validation: 400, or the score is computed and TestResult.create called.
SubmitValidate(r) ==
    /\ reqs[r].kind = "submit"
    /\ reqs[r].pc = "received"
    /\ reqs[r].method = "POST"
    /\ reqs' = [reqs EXCEPT ![r] =
           IF MissingRequiredFields(reqs[r].body)
           THEN [reqs[r] EXCEPT !.pc = "done", !.status = 400]
           ELSE [reqs[r] EXCEPT !.pc = "creating", !.doc = TestResultOf(reqs[r].via, reqs[r].body)]]
    /\ UNCHANGED <<users, tests, reportData>>
    /\ UNCHANGED notServerVars

\* await connectDB() of the serverless handler rejects: 500
ConnectFails(r) ==
    /\ reqs[r].kind = "submit"
    /\ reqs[r].pc = "received"
    /\ reqs[r].via = "serverless"
    /\ reqs[r].method = "POST"
    /\ reqs' = [reqs EXCEPT ![r].pc = "done", ![r].status = 500]
    /\ UNCHANGED <<users, tests, reportData>>
    /\ UNCHANGED notServerVars

\* The schema of TestResult declares score a number: a document whose score is
\* NaN is not stored.
CreateAccepts(doc) == ~doc.score.isNaN

\* A create that replaces the collection by the new document.
CreateReplacesStore(r) ==
    /\ reqs[r].kind = "submit"
    /\ reqs[r].pc = "creating"
    /\ CreateAccepts(reqs[r].doc)
    /\ tests' = <<reqs[r].doc>>
    /\ reqs' = [reqs EXCEPT ![r].pc = "done", ![r].status = 201]
    /\ UNCHANGED <<users, reportData>>
    /\ UNCHANGED notServerVars

\* TestResult.create resolves: res.status(201).json({ testResult })
CreateStored(r) ==
    /\ reqs[r].kind = "submit"
    /\ reqs[r].pc = "creating"
    /\ CreateAccepts(reqs[r].doc)
    /\ tests' = Append(tests, reqs[r].doc)
    /\ reqs' = [reqs EXCEPT ![r].pc = "done", ![r].status = 201]
    /\ UNCHANGED <<users, reportData>>
    /\ UNCHANGED notServerVars

\* TestResult.create rejects: res.status(500)
CreateFailed(r) ==
    /\ reqs[r].kind = "submit"
    /\ reqs[r].pc = "creating"
    /\ reqs' = [reqs EXCEPT ![r].pc = "done", ![r].status = 500]
    /\ UNCHANGED <<users, tests, reportData>>
    /\ UNCHANGED notServerVars

\* GET /api/tests/user/:userId, GET /api/tests/:id, GET /api/users/:id
ReadRoutes == {"tests/user/:userId", "tests/:id", "users/:id"}

ReadArrives(r) ==
    /\ Free(r)
    /\ \E route \in ReadRoutes, id \in 1..2 :
           reqs' = [reqs EXCEPT ![r] =
               [kind |-> "read", route |-> route, id |-> id, pc |-> "received", status |-> 0]]
    /\ UNCHANGED <<users, tests, reportData>>
    /\ UNCHANGED notServerVars

\* The document a read route finds, if any.
ReadFinds(route, id) ==
    CASE route = "tests/:id" -> id <= Len(tests)
      [] route = "users/:id" -> id <= Len(users)
      [] OTHER -> TRUE

\* find / findById resolves: res.json(...), or 404 when nothing is found
ReadResponds(r) ==
    /\ reqs[r].kind = "read"
    /\ reqs[r].pc = "received"
    /\ reqs' = [reqs EXCEPT ![r].pc = "done",
                            ![r].status = IF ReadFinds(reqs[r].route, reqs[r].id)
                                          THEN 200 ELSE 404]
    /\ UNCHANGED <<users, tests, reportData>>
    /\ UNCHANGED notServerVars

\* find / findById rejects: 500
ReadFails(r) ==
    /\ reqs[r].kind = "read"
    /\ reqs[r].pc = "received"
    /\ reqs' = [reqs EXCEPT ![r].pc = "done", ![r].status = 500]
    /\ UNCHANGED <<users, tests, reportData>>
    /\ UNCHANGED notServerVars

\* The score as App computes it for the report:
\* Math.round(((correctCount + partialCount * 0.5) / totalSteps) * 100)
ClientIsCorrect(s) == s.status = "correct"

ClientIsPartial(s) == s.status = "partially_correct"

ClientScore(stepResultList) ==
    MathRound(100 * (2 * CountTrue([k \in DOMAIN stepResultList |->
                                       ClientIsCorrect(stepResultList[k])])
                       + CountTrue([k \in DOMAIN stepResultList |->
                                      ClientIsPartial(stepResultList[k])])),
              2 * Len(stepResultList))

\* The results a view hands to onTestComplete: one for each step of a scenario
\* that has steps, graded in three tiers.
ClientResults ==
    { items \in SubmittedLists :
        /\ Len(items) >= 1
        /\ \A i \in 1..Len(items) : items[i].status \in ThreeTier }

\* handleTestComplete of a registered user up to await submitTest(...): the
\* score is computed and the results are sent to the server.
TestComplete(r) ==
    /\ Free(r)
    /\ reportData = NoReport
    /\ view = "assessment"
    /\ \E stepResultList \in ClientResults, via \in {"express", "serverless"} :
           /\ reportData' = [state |-> "submitting", req |-> r,
                             score |-> ClientScore(stepResultList),
                             totalSteps |-> Len(stepResultList),
                             correctAnswers |->
                                 CountTrue([k \in DOMAIN stepResultList |->
                                               ClientIsCorrect(stepResultList[k])]),
                             steps |-> stepResultList]
           /\ reqs' = [reqs EXCEPT ![r] =
                  [kind |-> "submit", via |-> via, method |-> "POST",
                   body |-> SubmitBody("u1", activeScenario.title, "Medium",
                                       ArrayOf(stepResultList)),
                   pc |-> "received", doc |-> TestResultOf(via, SubmitBody("", "", "", NoSteps)),
                   status |-> 0]]
    /\ UNCHANGED <<users, tests>>
    /\ UNCHANGED notServerVars

\* submitTest has resolved or thrown: setReportData(...); setView('report')
ShowReport ==
    /\ reportData # NoReport
    /\ reportData.state = "submitting"
    /\ reqs[reportData.req].pc = "done"
    /\ reportData' = [reportData EXCEPT !.state = "shown"]
    /\ view' = "report"
    /\ UNCHANGED <<users, tests, reqs>>
    /\ UNCHANGED <<pipelineVars, activeScenario, isGenerating, chatVars, fibVars, dbVars>>

\* The bodies of the register requests explored: two people, two addresses,
\* and one body for each missing field.
RegisterBody(name, email) ==
    [name |-> name, email |-> email,
     jobRole |-> IF name = "Ann" THEN "Frontend Developer" ELSE "SRE",
     experience |-> IF name = "Ann" THEN "Junior" ELSE "Senior"]

RegisterBodies ==
    { RegisterBody(name, email) : name \in {"Ann", "Bob"}, email \in {"a@x.io", "b@x.io"} }
    \cup { RegisterBody("", "a@x.io"),
           RegisterBody("Ann", ""),
           [RegisterBody("Ann", "a@x.io") EXCEPT !.jobRole = ""],
           [RegisterBody("Ann", "a@x.io") EXCEPT !.experience = ""] }

RegisterArrives(r) ==
    /\ Free(r)
    /\ \E body \in RegisterBodies :
           reqs' = [reqs EXCEPT ![r] =
               [kind |-> "register", body |-> body, pc |-> "received", found |-> 0,
                status |-> 0]]
    /\ UNCHANGED <<users, tests, reportData>>
    /\ UNCHANGED notServerVars

\* !name || !email || !jobRole || !experience
MissingUserFields(body) ==
    body.name = "" \/ body.email = "" \/ body.jobRole = "" \/ body.experience = ""

\* The validation: 400, or User.findOne({ email }) is called.
RegisterValidate(r) ==
    /\ reqs[r].kind = "register"
    /\ reqs[r].pc = "received"
    /\ reqs' = [reqs EXCEPT ![r] =
           IF MissingUserFields(reqs[r].body)
           THEN [reqs[r] EXCEPT !.pc = "done", !.status = 400]
           ELSE [reqs[r] EXCEPT !.pc = "finding"]]
    /\ UNCHANGED <<users, tests, reportData>>
    /\ UNCHANGED notServerVars

\* The _id of the first user with the address, 0 for null.
FindOneByEmail(email) ==
    IF \E i \in 1..Len(users) : users[i].email = email
    THEN CHOOSE i \in 1..Len(users) :
             /\ users[i].email = email
             /\ \A j \in 1..(i - 1) : users[j].email # email
    ELSE 0

\* await User.findOne({ email }) resolves with the user of that moment; the
\* handler goes on to user.save() or User.create(...)
FindOneResolves(r) ==
    /\ reqs[r].kind = "register"
    /\ reqs[r].pc = "finding"
    /\ reqs' = [reqs EXCEPT ![r].found = FindOneByEmail(reqs[r].body.email),
                            ![r].pc = "writing"]
    /\ UNCHANGED <<users, tests, reportData>>
    /\ UNCHANGED notServerVars

\* user.name = name; user.jobRole = jobRole; user.experience = experience; save
SavedUser(user, body) ==
    [user EXCEPT !.name = body.name, !.jobRole = body.jobRole,
                 !.experience = body.experience]

\* User.create({ name, email, jobRole, experience })
CreatedUser(body) ==
    [name |-> body.name, email |-> body.email, jobRole |-> body.jobRole,
     experience |-> body.experience]

\* await user.save() or await User.create(...) resolves: 201
SaveOrCreate(r) ==
    /\ reqs[r].kind = "register"
    /\ reqs[r].pc = "writing"
    /\ users' = IF reqs[r].found # 0
                THEN [users EXCEPT ![reqs[r].found] = SavedUser(@, reqs[r].body)]
                ELSE Append(users, CreatedUser(reqs[r].body))
    /\ reqs' = [reqs EXCEPT ![r].pc = "done", ![r].status = 201]
    /\ UNCHANGED <<tests, reportData>>
    /\ UNCHANGED notServerVars

\* findOne, save or create rejects: 500
RegisterFails(r) ==
    /\ reqs[r].kind = "register"
    /\ reqs[r].pc \in {"finding", "writing"}
    /\ reqs' = [reqs EXCEPT ![r].pc = "done", ![r].status = 500]
    /\ UNCHANGED <<users, tests, reportData>>
    /\ UNCHANGED notServerVars

\* The assessment view is shown and App holds no report.
ServerInit ==
    /\ ServerIdle
    /\ ChatIdle /\ FibIdle /\ DbIdle
    /\ config = NoConfig
    /\ generated = NoReply
    /\ scenario = NoScenario
    /\ foundBlanks = <<>>
    /\ idMap = <<>>
    /\ pc = "Idle"
    /\ view = "assessment"
    /\ activeScenario = FirstScenario
    /\ isGenerating = FALSE

ServerNext ==
    \/ \E r \in Requests :
           \/ SubmitArrives(r)
           \/ MethodNotAllowed(r)
           \/ ConnectFails(r)
           \/ SubmitValidate(r)
           \/ CreateStored(r)
           \/ CreateFailed(r)
           \/ ReadArrives(r)
           \/ ReadResponds(r)
           \/ ReadFails(r)
           \/ RegisterArrives(r)
           \/ RegisterValidate(r)
           \/ FindOneResolves(r)
           \/ SaveOrCreate(r)
           \/ RegisterFails(r)
           \/ TestComplete(r)
    \/ ShowReport

ServerSpec == ServerInit /\ [][ServerNext]_vars

----------------------------------------------------------------------------
\* Vocabulary of the properties

\* The scenario as assembled from the reply, before the post-processing.
Raw == AssembleScenario(config, generated)

\* The marker occurrences of the template as received, left to right.
OrigBlanks == ScanBlanks(Raw.codeTemplate)

TotalBlanks == Len(OrigBlanks)

\* The declared indices in physical order.
Declared == [i \in 1..TotalBlanks |-> OrigBlanks[i].originalId]

\* The marker occurrences of the corrected template, left to right.
OutBlanks == ScanBlanks(scenario.codeTemplate)

Assembled == pc = "Assembled"

\* A string with every marker removed.
RECURSIVE StripMarkersFrom(_, _)
StripMarkersFrom(s, p) ==
    IF p >= Len(s) THEN <<>>
    ELSE IF MarkerMatchLen(s, p) > 0 THEN StripMarkersFrom(s, p + MarkerMatchLen(s, p))
    ELSE <<s[p + 1]>> \o StripMarkersFrom(s, p + 1)

StripMarkers(s) == StripMarkersFrom(s, 0)

\* A string with every reference At\s+Blank\s+<digits> (any letter case)
\* respelled "At Blank <n>".
RECURSIVE RespellFrom(_, _)
RespellFrom(s, p) ==
    IF p >= Len(s) THEN <<>>
    ELSE LET h == AtBlankMatchLen(s, p)
             n == IF h > 0 THEN DigitRun(s, p + h) ELSE 0
         IN  IF n > 0
             THEN AtBlank \o ToStr(ParseInt(Substring(s, p + h, p + h + n)))
                  \o RespellFrom(s, p + h + n)
             ELSE <<s[p + 1]>> \o RespellFrom(s, p + 1)

Respell(s) == RespellFrom(s, 0)

----------------------------------------------------------------------------
\* C1: after the post-processing of a template with at least one marker, the
\* corrected template has as many markers as the original and the set of
\* their indices is exactly 1..totalBlanks (no gap, no duplicate), whatever
\* the declared indices were.
C1_MarkersDense ==
    (Assembled /\ TotalBlanks > 0) =>
        /\ Len(OutBlanks) = TotalBlanks
        /\ {OutBlanks[i].originalId : i \in 1..Len(OutBlanks)} = 1..TotalBlanks

\* C1 witness: a run has finished on a template whose declared indices are
\* repeated, and include 0 or a number above the step count.
C1_Witness ==
    /\ Assembled
    /\ TotalBlanks >= 2
    /\ \E i, j \in 1..TotalBlanks : i # j /\ Declared[i] = Declared[j]
    /\ \E i \in 1..TotalBlanks : Declared[i] > Len(Raw.steps)
    /\ scenario.codeTemplate # Raw.codeTemplate

\* C2: the blanks are ranked by physical position (the rank is the canonical
\* index), and the markers of the corrected template read 1, 2, ..., n from
\* left to right.
C2_CanonicalByPosition ==
    (Assembled /\ TotalBlanks > 0) =>
        /\ Len(foundBlanks) = TotalBlanks
        /\ \A i, j \in 1..Len(foundBlanks) :
               i < j => foundBlanks[i].index < foundBlanks[j].index
        /\ Len(OutBlanks) = TotalBlanks
        /\ \A k \in 1..Len(OutBlanks) : OutBlanks[k].originalId = k
        /\ \A i, j \in 1..Len(OutBlanks) :
               OutBlanks[i].index < OutBlanks[j].index
                   => OutBlanks[i].originalId < OutBlanks[j].originalId

\* C2 witness: a finished run on a template whose declared indices descend
\* with position.
C2_Witness ==
    /\ Assembled
    /\ TotalBlanks >= 3
    /\ \A i \in 1..(TotalBlanks - 1) : Declared[i] > Declared[i + 1]

\* C3: after assembly of a template with markers there are exactly
\* totalBlanks steps, none of them an empty slot, and the step at position i
\* (0-based) has the id "step_<i+1>".
C3_StepsDense ==
    (Assembled /\ TotalBlanks > 0) =>
        /\ Len(scenario.steps) = TotalBlanks
        /\ \A i \in 1..Len(scenario.steps) :
               /\ scenario.steps[i] # EmptySlot
               /\ scenario.steps[i].id = <<"s", "t", "e", "p", "_">> \o ToStr(i)

\* C3 witness: a finished run where the original steps were more than the
\* markers and carried other ids.
C3_Witness ==
    /\ Assembled
    /\ TotalBlanks >= 2
    /\ Len(Raw.steps) > TotalBlanks
    /\ Raw.steps[1].id # <<"s", "t", "e", "p", "_", "1">>
    /\ Len(scenario.steps) = TotalBlanks

\* C4: for every marker occurrence with declared index d and canonical index
\* c such that an original step exists at position d-1, the output step at
\* position c-1 has the expectedAnswer and outputSimulation of the original
\* step at position d-1.
C4_StepsPermuted ==
    (Assembled /\ TotalBlanks > 0) =>
        /\ Len(scenario.steps) = TotalBlanks
        /\ \A c \in 1..TotalBlanks :
               Declared[c] \in 1..Len(Raw.steps) =>
                   /\ scenario.steps[c].expectedAnswer
                          = Raw.steps[Declared[c]].expectedAnswer
                   /\ scenario.steps[c].outputSimulation
                          = Raw.steps[Declared[c]].outputSimulation

\* C4 witness: physical order 3, 1, 2 with three steps; the output positions
\* 0, 1, 2 hold the steps originally third, first and second.
C4_Witness ==
    /\ Assembled
    /\ Declared = <<3, 1, 2>>
    /\ Len(Raw.steps) = 3
    /\ scenario.steps[1].expectedAnswer = <<"a", "3">>
    /\ scenario.steps[2].expectedAnswer = <<"a", "1">>
    /\ scenario.steps[3].expectedAnswer = <<"a", "2">>

\* The template and the steps the example of two swapped blanks must yield.
SwappedExampleTemplateAndSteps ==
    /\ scenario.codeTemplate = <<"A", " ", "_", "_", "_", "B", "L", "A", "N", "K", "_", "1", "_", "_", "_", " ", "B", " ", "_", "_", "_", "B", "L", "A", "N", "K", "_", "2", "_", "_", "_", " ", "C">>
    /\ Len(scenario.steps) = 2
    /\ scenario.steps[1].id = <<"s", "t", "e", "p", "_", "1">>
    /\ scenario.steps[1].instruction = <<"A", "t", " ", "B", "l", "a", "n", "k", " ", "1", ":", " ", "s", "e", "c", "o", "n", "d">>
    /\ scenario.steps[2].id = <<"s", "t", "e", "p", "_", "2">>
    /\ scenario.steps[2].instruction = <<"A", "t", " ", "B", "l", "a", "n", "k", " ", "2", ":", " ", "f", "i", "r", "s", "t">>

C6_TextPreserved ==
    Assembled => StripMarkers(scenario.codeTemplate) = StripMarkers(Raw.codeTemplate)

\* C6 witness: a finished run that changed a template holding text with a
\* line break next to its markers.
C6_Witness ==
    /\ Assembled
    /\ TotalBlanks >= 2
    /\ scenario.codeTemplate # Raw.codeTemplate
    /\ \E p \in 1..Len(StripMarkers(Raw.codeTemplate)) :
           StripMarkers(Raw.codeTemplate)[p] = "\n"

\* C7: a scenario whose template has no marker (an absent or empty template
\* included) is returned as received: template, context and steps unchanged.
C7_NoMarkersIdentity ==
    (Assembled /\ TotalBlanks = 0) => scenario = Raw

\* C7 witness: a finished run on a non-empty template without markers whose
\* steps have ids of their own.
C7_Witness ==
    /\ Assembled
    /\ TotalBlanks = 0
    /\ Raw.codeTemplate # <<>>
    /\ Len(foundBlanks) = 0
    /\ Len(scenario.steps) >= 2
    /\ scenario.steps[1].id = <<"q", "1">>

\* The markers are spelled ___BLANK_1___, ..., ___BLANK_n___ in ascending
\* physical order.
WellFormedMarkers ==
    /\ TotalBlanks > 0
    /\ \A i \in 1..TotalBlanks :
           OrigBlanks[i].marker = <<"_", "_", "_", "B", "L", "A", "N", "K", "_">> \o ToStr(i) \o <<"_", "_", "_">>

\* C8 as stated: when the declared indices are 1, 2, ..., n in ascending
\* physical order, template, steps and context are unchanged, for every
\* steps list and every text.
C8_AsStated ==
    (Assembled /\ TotalBlanks > 0 /\ \A i \in 1..TotalBlanks : Declared[i] = i) =>
        /\ scenario.codeTemplate = Raw.codeTemplate
        /\ scenario.steps = Raw.steps
        /\ scenario.context = Raw.context

\* C8 amended: when the markers are spelled ___BLANK_1___ ... ___BLANK_n___
\* in ascending physical order and there are exactly n steps with the ids
\* step_1 ... step_n, the template and each step's id, expectedAnswer and
\* outputSimulation are unchanged, and the context and the instructions are
\* unchanged up to the spelling (letter case, white space, leading zeros) of
\* their "At Blank <number>" references; a text whose references are all
\* spelled "At Blank <n>" is unchanged.
C8_Amended ==
    (/\ Assembled
     /\ WellFormedMarkers
     /\ Len(Raw.steps) = TotalBlanks
     /\ \A i \in 1..Len(Raw.steps) : Raw.steps[i].id = <<"s", "t", "e", "p", "_">> \o ToStr(i)) =>
        /\ scenario.codeTemplate = Raw.codeTemplate
        /\ Len(scenario.steps) = Len(Raw.steps)
        /\ \A i \in 1..Len(Raw.steps) :
               /\ scenario.steps[i].id = Raw.steps[i].id
               /\ scenario.steps[i].expectedAnswer = Raw.steps[i].expectedAnswer
               /\ scenario.steps[i].outputSimulation = Raw.steps[i].outputSimulation
               /\ Respell(scenario.steps[i].instruction) = Respell(Raw.steps[i].instruction)
               /\ Respell(Raw.steps[i].instruction) = Raw.steps[i].instruction
                      => scenario.steps[i].instruction = Raw.steps[i].instruction
        /\ Respell(scenario.context) = Respell(Raw.context)
        /\ Respell(Raw.context) = Raw.context => scenario.context = Raw.context

\* C8 witness: a finished run on a well-formed scenario of several blanks
\* whose context and instructions refer to the blanks.
C8_Witness ==
    /\ Assembled
    /\ WellFormedMarkers
    /\ TotalBlanks >= 2
    /\ Len(Raw.steps) = TotalBlanks
    /\ \A i \in 1..Len(Raw.steps) : Raw.steps[i].id = <<"s", "t", "e", "p", "_">> \o ToStr(i)
    /\ StartsWithAt(Raw.context, 0, <<"A", "t", " ", "B", "l", "a", "n", "k", " ", "1">>)
    /\ StartsWithAt(Raw.steps[2].instruction, 0, <<"A", "t", " ", "B", "l", "a", "n", "k", " ", "2">>)
    /\ scenario = Raw

\* C9: applying the post-processing to an assembled scenario yields that
\* scenario again (template, steps and context).
C9_FixedPoint ==
    Assembled => PostProcess(scenario) = scenario

\* C10: when the declared index d of a marker has no original step at
\* position d-1, the step at the marker's canonical position c is the
\* sentinel: id "step_<c>", instruction "Missing step definition.", expected
\* answer "???".
C10_Sentinel ==
    (Assembled /\ TotalBlanks > 0) =>
        /\ Len(scenario.steps) = TotalBlanks
        /\ \A c \in 1..TotalBlanks :
               Declared[c] \notin 1..Len(Raw.steps) =>
                   /\ scenario.steps[c].id = <<"s", "t", "e", "p", "_">> \o ToStr(c)
                   /\ scenario.steps[c].instruction = <<"M", "i", "s", "s", "i", "n", "g", " ", "s", "t", "e", "p", " ", "d", "e", "f", "i", "n", "i", "t", "i", "o", "n", ".">>
                   /\ scenario.steps[c].expectedAnswer = <<"?", "?", "?">>

\* C10 witness: three markers 1, 2, 3 and two steps; three steps come out,
\* the third the sentinel and the first two real.
C10_Witness ==
    /\ Assembled
    /\ Declared = <<1, 2, 3>>
    /\ Len(Raw.steps) = 2
    /\ Len(scenario.steps) = 3
    /\ scenario.steps[3].instruction = <<"M", "i", "s", "s", "i", "n", "g", " ", "s", "t", "e", "p", " ", "d", "e", "f", "i", "n", "i", "t", "i", "o", "n", ".">>
    /\ scenario.steps[1].expectedAnswer = <<"a", "1">>
    /\ scenario.steps[2].expectedAnswer = <<"a", "2">>

----------------------------------------------------------------------------
\* The number of original steps differs from the number of markers, in a
\* reply that has a context.
StepCountMismatch ==
    /\ generated.context # <<>>
    /\ Len(generated.steps) # TotalBlanks

\* The steps are the sentinel exactly where the declared index has no step.
SentinelsWhereMissing ==
    /\ Len(scenario.steps) = TotalBlanks
    /\ \A c \in 1..TotalBlanks :
           (scenario.steps[c].instruction = <<"M", "i", "s", "s", "i", "n", "g", " ", "s", "t", "e", "p", " ", "d", "e", "f", "i", "n", "i", "t", "i", "o", "n", ".">>)
               <=> (Declared[c] \notin 1..Len(Raw.steps))

\* C11 as stated: a step count mismatch in either direction, zero steps
\* included, never makes generateScenario fail.
C11_AsStated ==
    StepCountMismatch => pc # "Failed"

\* C11 amended: a step count mismatch in either direction of a reply with at
\* least one step never makes generateScenario fail, and the scenario
\* returned for a template with markers has the sentinel step exactly where
\* a step is missing; a reply with zero steps is rejected as an invalid
\* structure.
C11_Amended ==
    /\ (StepCountMismatch /\ Len(generated.steps) >= 1) => pc # "Failed"
    /\ (StepCountMismatch /\ Len(generated.steps) >= 1 /\ Assembled /\ TotalBlanks > 0)
           => SentinelsWhereMissing
    /\ (Len(generated.steps) = 0 /\ pc # "Parsed") => pc = "Failed"

\* C11 witness: a scenario was returned for a reply of one step and several
\* markers, two of them without a step.
C11_Witness ==
    /\ Assembled
    /\ Len(generated.steps) = 1
    /\ TotalBlanks = 3
    /\ Cardinality({c \in 1..TotalBlanks :
                       scenario.steps[c].instruction = <<"M", "i", "s", "s", "i", "n", "g", " ", "s", "t", "e", "p", " ", "d", "e", "f", "i", "n", "i", "t", "i", "o", "n", ".">>}) = 2

\* The Step Remapper has run.
StepsRemapped == pc \in {"StepsRemapped", "ContextRewritten"}

\* C12 as stated: the remapped steps sequence has the length of the original
\* steps sequence.
C12_AsStated ==
    StepsRemapped => Len(scenario.steps) = Len(Raw.steps)

\* C12 amended: the remapped steps sequence has one step per marker of the
\* template; it has the length of the original steps sequence exactly when
\* the original steps are as many as the markers.
C12_Amended ==
    StepsRemapped =>
        /\ Len(scenario.steps) = Len(foundBlanks)
        /\ Len(foundBlanks) = TotalBlanks
        /\ (Len(scenario.steps) = Len(Raw.steps)) <=> (Len(Raw.steps) = TotalBlanks)

\* C12 witness: the remapper has produced two steps from three original
\* steps, one original step being dropped.
C12_Witness ==
    /\ pc = "StepsRemapped"
    /\ Len(Raw.steps) = 3
    /\ Declared = <<3, 1>>
    /\ Len(scenario.steps) = 2
    /\ scenario.steps[1].expectedAnswer = <<"a", "3">>

----------------------------------------------------------------------------
\* References to blanks in a text

\* Length of the match of Blank\s+ (flag i) at offset p, 0 if none.
BareBlankLen(s, p) ==
    IF StartsWithAtCI(s, p, <<"B", "l", "a", "n", "k">>) /\ SpaceRun(s, p + 5) > 0
    THEN 5 + SpaceRun(s, p + 5)
    ELSE 0

\* Length of the reference "At Blank <digits>" or "Blank <digits>" (any
\* letter case and white space) at offset p, 0 if none; and whether it has
\* the leading "At".
RefPrefixLen(s, p) ==
    IF AtBlankMatchLen(s, p) > 0 /\ DigitRun(s, p + AtBlankMatchLen(s, p)) > 0
    THEN AtBlankMatchLen(s, p)
    ELSE IF BareBlankLen(s, p) > 0 /\ DigitRun(s, p + BareBlankLen(s, p)) > 0
    THEN BareBlankLen(s, p)
    ELSE 0

\* The references of a text from left to right: whether written with "At",
\* the number, and the text of the reference.
RECURSIVE RefsFrom(_, _)
RefsFrom(s, p) ==
    IF p >= Len(s) THEN <<>>
    ELSE LET h == RefPrefixLen(s, p)
             n == DigitRun(s, p + h)
         IN  IF h > 0
             THEN <<[at   |-> AtBlankMatchLen(s, p) = h,
                     num  |-> ParseInt(Substring(s, p + h, p + h + n)),
                     text |-> Substring(s, p, p + h + n)]>> \o RefsFrom(s, p + h + n)
             ELSE RefsFrom(s, p + 1)

Refs(s) == RefsFrom(s, 0)

\* The text with its references removed.
RECURSIVE NonRefTextFrom(_, _)
NonRefTextFrom(s, p) ==
    IF p >= Len(s) THEN <<>>
    ELSE LET h == RefPrefixLen(s, p)
         IN  IF h > 0 THEN NonRefTextFrom(s, p + h + DigitRun(s, p + h))
             ELSE <<s[p + 1]>> \o NonRefTextFrom(s, p + 1)

NonRefText(s) == NonRefTextFrom(s, 0)

\* The context has been rewritten: the mapping was not empty.
ContextRewritten == Assembled /\ TotalBlanks > 0

C15_OwnReferenceOnly ==
    ContextRewritten =>
        \A c \in 1..TotalBlanks :
            Declared[c] \in 1..Len(Raw.steps) =>
                LET old == Refs(Raw.steps[Declared[c]].instruction)
                    new == Refs(scenario.steps[c].instruction)
                IN  /\ Len(new) = Len(old)
                    /\ \A k \in 1..Len(old) :
                           /\ (old[k].at /\ old[k].num = Declared[c]) => new[k].num = c
                           /\ old[k].num # Declared[c] => new[k].text = old[k].text

\* The Canonical Order Resolver has run.
Resolved ==
    pc \in {"Resolved", "TemplateRewritten", "StepsRemapped", "ContextRewritten", "Assembled"}

\* C16: with markers that share a declared index the run goes on; every
\* occurrence has its own rank (canonical index) by position, the mapping has
\* exactly the declared indices as keys and holds for each the rank of its
\* last occurrence by position; the markers of the corrected template are
\* pairwise different.
C16_LastWriteWins ==
    /\ Resolved =>
        /\ Len(foundBlanks) = TotalBlanks
        /\ \A i \in 1..TotalBlanks : foundBlanks[i].index = OrigBlanks[i].index
        /\ DOMAIN idMap = {Declared[i] : i \in 1..TotalBlanks}
        /\ \A d \in DOMAIN idMap :
               /\ idMap[d] \in 1..TotalBlanks
               /\ Declared[idMap[d]] = d
               /\ \A j \in 1..TotalBlanks : Declared[j] = d => j <= idMap[d]
    /\ (Assembled /\ TotalBlanks > 0) =>
        \A i, j \in 1..Len(OutBlanks) :
            i # j => OutBlanks[i].originalId # OutBlanks[j].originalId

\* C16 witness: the markers 1, 2, 1 in this order; the mapping sends 1 to 3
\* and the corrected template reads 1, 2, 3.
C16_Witness ==
    /\ Assembled
    /\ Declared = <<1, 2, 1>>
    /\ idMap[1] = 3
    /\ idMap[2] = 2
    /\ [k \in 1..Len(OutBlanks) |-> OutBlanks[k].originalId] = <<1, 2, 3>>

\* The stage that follows each stage in the linear order.
StageAfter ==
    "Received" :> "Scanned" @@ "Scanned" :> "Resolved" @@ "Resolved" :> "TemplateRewritten"
    @@ "TemplateRewritten" :> "StepsRemapped" @@ "StepsRemapped" :> "ContextRewritten"
    @@ "ContextRewritten" :> "Assembled"

Stages == DOMAIN StageAfter \cup {"Assembled"}

\* The steps the order of stages allows as stated: to the next stage of the
\* linear order, or from Resolved with no occurrence to Assembled.
StageStepAsStated ==
    pc \in Stages =>
        \/ pc = "Resolved" /\ Len(foundBlanks) = 0 /\ pc' = "Assembled"
        \/ /\ pc \in DOMAIN StageAfter
           /\ ~(pc = "Resolved" /\ Len(foundBlanks) = 0)
           /\ pc' = StageAfter[pc]

\* The same with the second exception: from Received with an empty template
\* to Assembled.
StageStepAmended ==
    pc \in Stages =>
        \/ pc = "Received" /\ scenario.codeTemplate = <<>> /\ pc' = "Assembled"
        \/ pc = "Resolved" /\ Len(foundBlanks) = 0 /\ pc' = "Assembled"
        \/ /\ pc \in DOMAIN StageAfter
           /\ ~(pc = "Received" /\ scenario.codeTemplate = <<>>)
           /\ ~(pc = "Resolved" /\ Len(foundBlanks) = 0)
           /\ pc' = StageAfter[pc]

\* C17 as stated (its order of stages): from Received on, every step goes to
\* the next stage of the linear order, except that Resolved with no
\* occurrence goes to Assembled; no step leaves Assembled.
C17_AsStated == [][StageStepAsStated]_vars

\* C17 amended: the stages run in the linear order Received, Scanned,
\* Resolved, TemplateRewritten, StepsRemapped, ContextRewritten, Assembled,
\* none skipped or repeated, with two exceptions: a scenario with an empty or
\* absent template goes from Received directly to Assembled, and a zero
\* occurrence count at Resolved goes directly to Assembled; every run that
\* has received a scenario eventually reaches Assembled.
C17_Amended ==
    /\ [][StageStepAmended]_vars
    /\ (pc = "Received") ~> (pc = "Assembled")

\* C17 witness: a run has gone through every stage, each of them changing the
\* scenario.
C17_Witness ==
    /\ Assembled
    /\ Len(foundBlanks) = 2
    /\ scenario.codeTemplate # Raw.codeTemplate
    /\ scenario.steps # Raw.steps
    /\ scenario.context # Raw.context

----------------------------------------------------------------------------
\* C18-C20: generateScenario and the handlers of App

\* The scenarios a finished call hands over: the post-processed scenario of a
\* reply that passed the validation.
CompleteScenarios ==
    StaticScenarios
    \cup { PostProcess(AssembleScenario(c, r)) :
             c \in Configs,
             r \in { x \in AppReplies : x.context # <<>> /\ x.steps # <<>> } }

\* A step that sets the active scenario takes a static scenario, or the
\* scenario of a call whose three rewrites are done.
SetsOnlyCompleteScenario ==
    activeScenario' # activeScenario =>
        \/ activeScenario' \in StaticScenarios
        \/ /\ pc = "Assembled"
           /\ activeScenario' = scenario
           /\ scenario = PostProcess(AssembleScenario(config, generated))

\* C18: the UI never observes a partially corrected scenario: the active
\* scenario is set only from the value generateScenario returns after the
\* template rewrite, the step remap and the context rewrite, so that in every
\* reachable state the displayed scenario is a static scenario or a fully
\* assembled one.
C18_NoPartialScenario ==
    /\ [](activeScenario \in CompleteScenarios)
    /\ [][SetsOnlyCompleteScenario]_vars

\* C18 witness: the assessment view shows a generated scenario whose template
\* and steps the post-processing has changed.
C18_Witness ==
    /\ pc = "Idle"
    /\ view = "assessment"
    /\ ~isGenerating
    /\ activeScenario \notin StaticScenarios
    /\ \E c \in Configs, r \in AppReplies :
           /\ activeScenario = PostProcess(AssembleScenario(c, r))
           /\ activeScenario.codeTemplate # r.codeTemplate
           /\ activeScenario.steps # AssembleScenario(c, r).steps
           /\ activeScenario.context # r.context

\* The fields of the scenario the post-processing does not own.
FrameOf(sc) == <<sc.id, sc.title, sc.description, sc.difficulty, sc.environment>>

\* One step of a call: the reply and the config are left as they were; from
\* Received on the frame of the scenario stays; the step remap gives the step
\* of each marker the expected answer and the output of the reply's step with
\* the marker's declared index.
PipelineStepIsPure ==
    /\ generated' = generated
    /\ config' = config
    /\ pc \in Stages => FrameOf(scenario') = FrameOf(scenario)
    /\ (pc = "TemplateRewritten" /\ pc' = "StepsRemapped") =>
           \A c \in 1..TotalBlanks :
               Declared[c] \in 1..Len(generated.steps) =>
                   /\ scenario'.steps[c].expectedAnswer
                          = generated.steps[Declared[c]].expectedAnswer
                   /\ scenario'.steps[c].outputSimulation
                          = generated.steps[Declared[c]].outputSimulation

\* C19: the pipeline does not change its inputs and touches only template,
\* steps and context: the step records of the reply are the same after the
\* assembly, each relocated step keeps expectedAnswer and outputSimulation of
\* its original, and id, title, description, difficulty and environment of
\* the scenario are not changed by the post-processing.
C19_InputsAndFrameKept == [][PipelineStepIsPure]_vars

\* C19 witness: a step was moved to another position and its instruction
\* rewritten, while the reply still has the instruction as generated.
C19_Witness ==
    /\ Assembled
    /\ FrameOf(scenario) = FrameOf(config)
    /\ \E c \in 1..TotalBlanks :
           /\ Declared[c] # c
           /\ Declared[c] \in 1..Len(generated.steps)
           /\ scenario.steps[c].expectedAnswer = generated.steps[Declared[c]].expectedAnswer
           /\ scenario.steps[c].outputSimulation # <<>>
           /\ scenario.steps[c].instruction # generated.steps[Declared[c]].instruction

\* The reply fails the validation: no context, or no step.
StructurallyInvalid == generated.context = <<>> \/ generated.steps = <<>>

\* The steps a failure allows: a reply that fails the validation makes the
\* call throw, with no scenario assembled; after a throw the handler leaves
\* view and active scenario alone, sets isGenerating to false and is done; the
\* request is sent only by a handler the user started, never again by the
\* failed call.
FailureStep ==
    /\ (pc = "Parsed" /\ StructurallyInvalid) => (pc' = "Failed" /\ scenario' = NoScenario)
    /\ pc = "Failed" =>
           /\ pc' = "Idle"
           /\ view' = view
           /\ activeScenario' = activeScenario
           /\ isGenerating' = FALSE
    /\ (pc' = "Fetching" /\ pc # "Fetching") => pc \in {"Idle", "Registering"}
    /\ (pc = "Fetching" /\ pc' # "Fetching") => pc' \in {"Parsed", "Failed"}

\* C20: a failure of the generation (API error, JSON that does not parse, no
\* context, no step) is reported upward with no retry: generateScenario throws
\* and returns no scenario, and App keeps its view and its active scenario and
\* sets isGenerating back to false.
C20_FailureReported == [][FailureStep]_vars

\* C20 witness: a call has thrown on a reply without steps while App shows a
\* scenario generated before and the spinner is on.
C20_Witness ==
    /\ pc = "Failed"
    /\ generated.context # <<>>
    /\ generated.steps = <<>>
    /\ scenario = NoScenario
    /\ isGenerating
    /\ activeScenario \notin StaticScenarios

----------------------------------------------------------------------------
\* validateAnswer and the chat interviewer (src/src/components/AiInterviewer.tsx)

notChatVars == <<pipelineVars, appVars, serverVars, fibVars, dbVars>>

\* What a call of validateAnswer meets: no API key, a fetch that rejects, a
\* reply with an error member, a reply whose content is not the JSON of an
\* object or has no choices, and the JSON of an object with a status that is
\* one of the three, missing, or another text, and a correct flag.
GraderReplies ==
    { [kind |-> k, status |-> "", correct |-> FALSE, feedback |-> ""] :
        k \in {"noApiKey", "fetchRejects", "apiError", "unparseable"} }
    \cup { [kind |-> "json", status |-> s, correct |-> c, feedback |-> "ok"] :
             s \in {"correct", "partially_correct", "incorrect", "", "Correct"},
             c \in BOOLEAN }

ApiKeyMissing == "Error: API Key is missing."

ServiceUnavailable == "Validation service unavailable. Please try again."

CouldNotValidate == "Could not validate your answer. Please try again."

\* The result validateAnswer resolves with; it never rejects.
ValidateAnswer(reply) ==
    CASE reply.kind = "noApiKey" ->
             [correct |-> FALSE, status |-> "incorrect", feedback |-> ApiKeyMissing]
      [] reply.kind = "apiError" ->
             [correct |-> FALSE, status |-> "incorrect", feedback |-> ServiceUnavailable]
      [] reply.kind \in {"fetchRejects", "unparseable"} ->
             [correct |-> FALSE, status |-> "incorrect", feedback |-> CouldNotValidate]
      [] OTHER ->
             LET status == IF reply.status # "" THEN reply.status
                           ELSE IF reply.correct THEN "correct" ELSE "incorrect"
             IN  [correct |-> status = "correct", status |-> status,
                  feedback |-> reply.feedback]

\* handleSend without the test of answeredStepsRef.
HandleSendUnchecked(step, loadingSeen) ==
    /\ IF loadingSeen
       THEN UNCHANGED <<isLoading, validation, lastReply>>
       ELSE IF step >= Len(activeScenario.steps)
       THEN /\ isLoading' = TRUE
            /\ validation' = [state |-> "chatting"]
            /\ lastReply' = lastReply
       ELSE /\ isLoading' = TRUE
            /\ validation' = [state |-> "pending", step |-> step]
            /\ lastReply' = lastReply
    /\ UNCHANGED <<currentStep, answeredSteps, stepResultsRef, advanceTimers, testFinished>>

\* handleSend with a text that is not blank, in a render that saw the step
\* `step` and the loading flag `loadingSeen`, up to its first await.
HandleSend(step, loadingSeen) ==
    /\ IF loadingSeen
       THEN UNCHANGED <<isLoading, validation, lastReply>>
       ELSE IF step >= Len(activeScenario.steps)
       THEN /\ isLoading' = TRUE
            /\ validation' = [state |-> "chatting"]
            /\ lastReply' = lastReply
       ELSE IF step \in answeredSteps
       THEN /\ lastReply' = "already answered"
            /\ UNCHANGED <<isLoading, validation>>
       ELSE /\ isLoading' = TRUE
            /\ validation' = [state |-> "pending", step |-> step]
            /\ lastReply' = lastReply
    /\ UNCHANGED <<currentStep, answeredSteps, stepResultsRef, advanceTimers, testFinished>>

\* The controls that send are disabled while loading and when the test is
\* finished.
ControlsEnabled == ~isLoading /\ ~testFinished

\* Enter in the input or a click on the send button: handleSend() of the
\* current render
SendText ==
    /\ ControlsEnabled
    /\ HandleSend(currentStep, isLoading)
    /\ UNCHANGED <<transcript, voiceClosure>>
    /\ UNCHANGED notChatVars

\* startListening: setTranscript('')
StartListening ==
    /\ ControlsEnabled
    /\ transcript' = FALSE
    /\ voiceClosure' = [currentStep |-> currentStep, isLoading |-> isLoading]
    /\ UNCHANGED <<currentStep, isLoading, answeredSteps, stepResultsRef, advanceTimers,
                   validation, testFinished, lastReply>>
    /\ UNCHANGED notChatVars

\* recognition.onresult: setTranscript(...) with a new text; handleVoiceSend
\* is made again and keeps the handleSend of this render.
TranscriptChanges ==
    /\ transcript' = TRUE
    /\ voiceClosure' = [currentStep |-> currentStep, isLoading |-> isLoading]
    /\ UNCHANGED <<currentStep, isLoading, answeredSteps, stepResultsRef, advanceTimers,
                   validation, testFinished, lastReply>>
    /\ UNCHANGED notChatVars

\* A click on the send button of the voice tab: handleVoiceSend with the
\* handleSend it kept
SendVoice ==
    /\ ControlsEnabled
    /\ transcript
    /\ transcript' = FALSE
    /\ HandleSend(voiceClosure.currentStep, voiceClosure.isLoading)
    /\ voiceClosure' = [currentStep |-> currentStep, isLoading |-> isLoading']
    /\ UNCHANGED notChatVars

\* validateAnswer resolves.
GraderResponds ==
    /\ validation.state = "pending"
    /\ \E reply \in GraderReplies :
           validation' = [state |-> "resolved", step |-> validation.step,
                          result |-> ValidateAnswer(reply)]
    /\ UNCHANGED <<currentStep, isLoading, answeredSteps, stepResultsRef, advanceTimers,
                   testFinished, transcript, voiceClosure, lastReply>>
    /\ UNCHANGED notChatVars

\* const stepResult: StepResult = {...}
StepResultOf(step, result) ==
    [stepIndex |-> step, correct |-> result.correct, status |-> result.status,
     feedback |-> result.feedback]

\* handleSend goes on after its await: after validateAnswer the step is marked
\* answered, its result recorded and onStepSuccess called, which starts the
\* timer of handleStepSuccess; after callAI only the loading flag is reset.
AwaitReturns ==
    /\ validation.state \in {"resolved", "chatting"}
    /\ IF validation.state = "resolved"
       THEN /\ answeredSteps' = answeredSteps \cup {validation.step}
            /\ stepResultsRef' =
                   Append(stepResultsRef, StepResultOf(validation.step, validation.result))
            /\ lastReply' = validation.result.status
            /\ advanceTimers' = advanceTimers + 1
       ELSE UNCHANGED <<answeredSteps, stepResultsRef, lastReply, advanceTimers>>
    /\ isLoading' = FALSE
    /\ validation' = NoValidation
    /\ UNCHANGED <<currentStep, testFinished, transcript, voiceClosure>>
    /\ UNCHANGED notChatVars

\* The timer of handleStepSuccess fires: setCurrentStep(prev => prev + 1); the
\* effect of AiInterviewer shows the next step or, after the last one, the
\* summary: setTestFinished(true)
TimerFires ==
    /\ advanceTimers > 0
    /\ advanceTimers' = advanceTimers - 1
    /\ currentStep' = currentStep + 1
    /\ testFinished' = (testFinished \/ currentStep + 1 >= Len(activeScenario.steps))
    /\ UNCHANGED <<isLoading, answeredSteps, stepResultsRef, validation, transcript,
                   voiceClosure, lastReply>>
    /\ UNCHANGED notChatVars

\* AssessmentView shows a scenario and AiInterviewer has rendered once.
ChatInit ==
    /\ ServerIdle /\ ChatIdle /\ FibIdle /\ DbIdle
    /\ config = NoConfig
    /\ generated = NoReply
    /\ scenario = NoScenario
    /\ foundBlanks = <<>>
    /\ idMap = <<>>
    /\ pc = "Idle"
    /\ view = "assessment"
    /\ activeScenario \in CompleteScenarios
    /\ isGenerating = FALSE

ChatNext ==
    \/ SendText
    \/ StartListening
    \/ TranscriptChanges
    \/ SendVoice
    \/ GraderResponds
    \/ AwaitReturns
    \/ TimerFires

ChatSpec == ChatInit /\ [][ChatNext]_vars

----------------------------------------------------------------------------
\* C22, C23, C26: grading in the chat interviewer

\* A result graded in three tiers whose correct flag says no more than its
\* status.
IsThreeTier(x) == x.status \in ThreeTier /\ (x.correct => x.status = "correct")

\* C22: every result validateAnswer returns, for every reply of the grader,
\* has a status among correct, partially_correct and incorrect, and is flagged
\* correct only if its status is correct.
C22_ThreeTierResult ==
    /\ validation.state = "resolved" => IsThreeTier(validation.result)
    /\ \A i \in 1..Len(stepResultsRef) : IsThreeTier(stepResultsRef[i])

\* One validation is awaited at a time, for a step that has no result yet, and
\* the steps marked answered are those with a result, one result each.
OneResultPerStep ==
    /\ \A i, j \in 1..Len(stepResultsRef) :
           stepResultsRef[i].stepIndex = stepResultsRef[j].stepIndex => i = j
    /\ answeredSteps = { stepResultsRef[i].stepIndex : i \in 1..Len(stepResultsRef) }
    /\ validation.state # "none" => isLoading
    /\ validation.state \in {"pending", "resolved"} => validation.step \notin answeredSteps

\* A validation is started only when none is awaited, for a step that is not
\* marked answered.
GradingStep ==
    (validation'.state = "pending" /\ validation' # validation)
        => (validation.state = "none" /\ validation'.step \notin answeredSteps)

\* C23: in the chat interviewer each step is answered in a single attempt: over
\* every interleaving of sends (typed, or spoken through a handler kept from an
\* earlier render), pending validations and the delayed advance, at most one
\* StepResult is recorded for a step index, and a message sent for a step that
\* is already answered is not graded.
C23_SingleAttempt == []OneResultPerStep /\ [][GradingStep]_vars

\* C23 witness: both steps of a scenario have their result, and a message sent
\* before the view advanced was answered "already answered".
C23_Witness ==
    /\ Len(stepResultsRef) = 2
    /\ answeredSteps = {0, 1}
    /\ lastReply = "already answered"
    /\ currentStep = 1
    /\ ~testFinished

\* C26: when validating an answer fails (service unreachable, error reply,
\* unparseable reply), no StepResult is recorded and the step is not marked
\* answered: no recorded result carries the feedback of a failed validation.
C26_FailureNotRecorded ==
    \A i \in 1..Len(stepResultsRef) :
        stepResultsRef[i].feedback \notin {ServiceUnavailable, CouldNotValidate}

----------------------------------------------------------------------------
\* The fill-in-the-blanks view (src/unnamed/part_006)

notFibVars == <<pipelineVars, appVars, serverVars, chatVars, dbVars>>

\* const totalBlanks = scenario.steps.length
totalBlanks == Len(activeScenario.steps)

\* String.prototype.trim
TrimText(s) ==
    LET kept == { i \in 1..Len(s) : ~IsSpace(s[i]) }
    IN  IF kept = {} THEN <<>>
        ELSE SubSeq(s, CHOOSE i \in kept : \A k \in kept : i <= k,
                       CHOOSE i \in kept : \A k \in kept : k <= i)

\* The texts typed or dictated into a blank.
TypedAnswers == { <<>>, <<" ">>, <<" ", "l", "s", " ">>, <<"p", "w", "d">> }

\* useState(() => Array(totalBlanks).fill(null))
NoFeedback == [status |-> "none", feedback |-> ""]

\* const filledCount = answers.filter(a => a.trim() !== '').length
FilledCount == Cardinality({ i \in 1..Len(answers) : TrimText(answers[i]) # <<>> })

\* The result pushed for a blank left empty.
NoAnswerResult(i) ==
    [stepIndex |-> i, userAnswer |-> <<"(", "n", "o", " ", "a", "n", "s", "w", "e", "r", ")">>, correct |-> FALSE,
     status |-> "incorrect", feedback |-> "No answer provided."]

\* The result pushed after validateAnswer, or in the catch block when it rejects.
EvaluatedResult(i, ans, v) ==
    IF v.rejected
    THEN [stepIndex |-> i, userAnswer |-> ans, correct |-> FALSE,
          status |-> "incorrect", feedback |-> "Evaluation failed."]
    ELSE [stepIndex |-> i, userAnswer |-> ans, correct |-> v.result.correct,
          status |-> v.result.status, feedback |-> v.result.feedback]

\* fbs.push({ status, feedback }) next to every results.push
FbsOf(rs) == [k \in 1..Len(rs) |-> [status |-> rs[k].status, feedback |-> rs[k].feedback]]

\* The first step from i on whose answer is not blank, totalBlanks if none.
NextAwait(captured, i) ==
    IF \E j \in i..(totalBlanks - 1) : TrimText(captured[j + 1]) # <<>>
    THEN CHOOSE j \in i..(totalBlanks - 1) :
             /\ TrimText(captured[j + 1]) # <<>>
             /\ \A k \in i..(j - 1) : TrimText(captured[k + 1]) = <<>>
    ELSE totalBlanks

\* The loop that stops at the first answer, whatever it is.
RunLoopAwaitingAll(i, rs, captured) ==
    IF i < totalBlanks
    THEN /\ results' = rs
         /\ fbs' = FbsOf(rs)
         /\ evalProgress' = i + 1
         /\ fibPending' = [state |-> "validating", i |-> i, answers |-> captured]
         /\ phase' = "evaluating"
         /\ UNCHANGED <<stepResults, feedbacks>>
    ELSE /\ results' = rs
         /\ fbs' = FbsOf(rs)
         /\ evalProgress' = totalBlanks
         /\ fibPending' = NoValidation
         /\ stepResults' = rs
         /\ feedbacks' = FbsOf(rs)
         /\ phase' = "results"

\* The loop of handleSubmitAll from step i with the results rs, over the
\* answers of the render that submitted: blank answers are pushed as incorrect
\* until an answer is handed to validateAnswer, or the loop ends and the
\* results are shown.
RunLoop(i, rs, captured) ==
    LET j   == NextAwait(captured, i)
        rs2 == rs \o [k \in 1..(j - i) |-> NoAnswerResult(i + k - 1)]
    IN  IF j < totalBlanks
        THEN /\ results' = rs2
             /\ fbs' = FbsOf(rs2)
             /\ evalProgress' = j + 1
             /\ fibPending' = [state |-> "validating", i |-> j, answers |-> captured]
             /\ phase' = "evaluating"
             /\ UNCHANGED <<stepResults, feedbacks>>
        ELSE /\ results' = rs2
             /\ fbs' = FbsOf(rs2)
             /\ evalProgress' = totalBlanks
             /\ fibPending' = NoValidation
             /\ stepResults' = rs2
             /\ feedbacks' = FbsOf(rs2)
             /\ phase' = "results"

\* onChange of an input: updateAnswer(idx, e.target.value)
UpdateAnswer ==
    /\ phase = "answering"
    /\ \E idx \in 1..totalBlanks, val \in TypedAnswers :
           answers' = [answers EXCEPT ![idx] = val]
    /\ UNCHANGED <<phase, evalProgress, results, fbs, stepResults, feedbacks, fibPending>>
    /\ UNCHANGED notFibVars

\* recognition.onresult of a recognition started while answering; stop() may
\* still deliver a result after the answers were submitted.
VoiceResult ==
    /\ phase \in {"answering", "evaluating"}
    /\ \E idx \in 1..totalBlanks :
           answers' = [answers EXCEPT ![idx] = <<"p", "w", "d">>]
    /\ UNCHANGED <<phase, evalProgress, results, fbs, stepResults, feedbacks, fibPending>>
    /\ UNCHANGED notFibVars

\* A click on "Run and Validate", or Enter in the last input when every blank
\* is filled: handleSubmitAll up to its first await
SubmitAll ==
    /\ phase = "answering"
    /\ FilledCount > 0
    /\ RunLoop(0, <<>>, answers)
    /\ UNCHANGED answers
    /\ UNCHANGED notFibVars

\* validateAnswer resolves.
FibGraderResponds ==
    /\ fibPending.state = "validating"
    /\ \E reply \in GraderReplies :
           fibPending' = [state |-> "resolved", i |-> fibPending.i,
                          answers |-> fibPending.answers,
                          v |-> [rejected |-> FALSE, result |-> ValidateAnswer(reply)]]
    /\ UNCHANGED <<phase, answers, evalProgress, results, fbs, stepResults, feedbacks>>
    /\ UNCHANGED notFibVars

\* handleSubmitAll goes on after its await: the result is pushed and the loop
\* runs on to its next await or to its end.
FibAwaitReturns ==
    /\ fibPending.state = "resolved"
    /\ RunLoop(fibPending.i + 1,
               Append(results, EvaluatedResult(fibPending.i,
                                               TrimText(fibPending.answers[fibPending.i + 1]),
                                               fibPending.v)),
               fibPending.answers)
    /\ UNCHANGED answers
    /\ UNCHANGED notFibVars

\* The first render of FillInBlanks with its scenario.
FibInit ==
    /\ ServerIdle /\ ChatIdle /\ DbIdle
    /\ config = NoConfig
    /\ generated = NoReply
    /\ scenario = NoScenario
    /\ foundBlanks = <<>>
    /\ idMap = <<>>
    /\ pc = "Idle"
    /\ view = "assessment"
    /\ activeScenario \in CompleteScenarios
    /\ isGenerating = FALSE
    /\ phase = "answering"
    /\ answers = [i \in 1..totalBlanks |-> <<>>]
    /\ feedbacks = [i \in 1..totalBlanks |-> NoFeedback]
    /\ evalProgress = 0
    /\ results = <<>>
    /\ fbs = <<>>
    /\ stepResults = <<>>
    /\ fibPending = NoValidation

FibNext ==
    \/ UpdateAnswer
    \/ VoiceResult
    \/ SubmitAll
    \/ FibGraderResponds
    \/ FibAwaitReturns

FibSpec == FibInit /\ [][FibNext]_vars

----------------------------------------------------------------------------
\* C27: the phases and the results of the fill-in-the-blanks view

\* The phase moves from answering to evaluating and from evaluating to
\* results only, and the validator is called only for an answer that is not
\* blank.
PhaseStep ==
    /\ phase' # phase =>
           \/ phase = "answering" /\ phase' = "evaluating"
           \/ phase = "evaluating" /\ phase' = "results"
    /\ (fibPending'.state = "validating" /\ fibPending' # fibPending)
           => TrimText(fibPending'.answers[fibPending'.i + 1]) # <<>>

\* When the results are shown there is one result for each step, the result of
\* step i at position i; the result of a blank answer and the result of a
\* failed validation are incorrect.
ResultsComplete ==
    phase = "results" =>
        /\ Len(stepResults) = totalBlanks
        /\ \A k \in 1..Len(stepResults) :
               /\ stepResults[k].stepIndex = k - 1
               /\ stepResults[k].userAnswer = <<"(", "n", "o", " ", "a", "n", "s", "w", "e", "r", ")">>
                      => (stepResults[k].status = "incorrect" /\ ~stepResults[k].correct)
               /\ stepResults[k].feedback \in {ServiceUnavailable, CouldNotValidate,
                                               "Evaluation failed."}
                      => (stepResults[k].status = "incorrect" /\ ~stepResults[k].correct)

\* C27: in the fill-in-the-blanks view the phase only moves answering ->
\* evaluating -> results; when results is reached stepResults holds one result
\* per step, in step order with stepIndex i at position i; a blank answer is
\* recorded as incorrect without a call of the validator, and a failed
\* validation is recorded as incorrect and the remaining steps are evaluated.
C27_PhasesAndResults == []ResultsComplete /\ [][PhaseStep]_vars

\* C27 witness: the results are shown for two steps, the first left blank and
\* recorded without validation, the second recorded after the service failed.
C27_Witness ==
    /\ phase = "results"
    /\ Len(stepResults) = 2
    /\ stepResults[1].feedback = "No answer provided."
    /\ stepResults[2].feedback = ServiceUnavailable

----------------------------------------------------------------------------
\* C29: markers and steps in the fill-in-the-blanks view

\* blankIdx without the - 1: the number of the marker itself.
BlankIdxOneBased(b) == b.originalId

\* blankIdx: parseInt(match[1]) - 1, the slot of answers an input is bound to
BlankIdx(b) == b.originalId - 1

\* The slots of the inputs renderUnifiedTemplate makes for a template, left to
\* right: one for each match of /___BLANK_(\d+)___/g.
InputSlots(template) ==
    [k \in 1..Len(ScanBlanks(template)) |-> BlankIdx(ScanBlanks(template)[k])]

\* Every input is bound to the slot of a step, no two inputs to the same
\* slot, and every step has an input.
BoundOneToOne(sc) ==
    LET slots == InputSlots(sc.codeTemplate)
    IN  /\ \A k \in 1..Len(slots) : slots[k] \in 0..(Len(sc.steps) - 1)
        /\ \A k, m \in 1..Len(slots) : slots[k] = slots[m] => k = m
        /\ \A i \in 0..(Len(sc.steps) - 1) : \E k \in 1..Len(slots) : slots[k] = i

\* C29: after generateScenario returns a scenario whose template has at least
\* one marker, the fill-in-the-blanks view binds markers and steps one to one:
\* every marker maps to a slot in [0, steps.length), no two markers share a
\* slot, and every step has exactly one marker.
C29_MarkersMatchSteps ==
    (Assembled /\ Len(OutBlanks) >= 1) => BoundOneToOne(scenario)

\* C29 witness: a scenario is returned whose markers were renumbered and whose
\* reply had fewer steps than markers.
C29_Witness ==
    /\ Assembled
    /\ Len(OutBlanks) = 3
    /\ scenario.codeTemplate # Raw.codeTemplate
    /\ Len(Raw.steps) < 3

----------------------------------------------------------------------------
\* connectDB of the serverless functions (src/unnamed/part_007, lines 70-87)

notDbVars == <<pipelineVars, appVars, serverVars, chatVars, fibVars>>

\* connectDB without the test of cached.promise.
ConnectDBAlwaysConnects(c) ==
    /\ callers[c].pc = "idle"
    /\ IF cached.conn # 0
       THEN /\ callers' = [callers EXCEPT ![c] = [pc |-> "returned", value |-> cached.conn]]
            /\ UNCHANGED <<cached, connectCalls>>
       ELSE /\ cached' = [cached EXCEPT
                             !.promise = [attempt |-> connectCalls + 1, state |-> "pending"]]
            /\ connectCalls' = connectCalls + 1
            /\ callers' = [callers EXCEPT ![c].pc = "awaiting"]
    /\ UNCHANGED notDbVars

\* A call of connectDB up to its await: the cached connection is returned, or
\* the cached promise is awaited, after mongoose.connect was called to make it
\* if there was none.
ConnectDB(c) ==
    /\ callers[c].pc = "idle"
    /\ IF cached.conn # 0
       THEN /\ callers' = [callers EXCEPT ![c] = [pc |-> "returned", value |-> cached.conn]]
            /\ UNCHANGED <<cached, connectCalls>>
       ELSE /\ IF cached.promise.state = "null"
               THEN /\ cached' = [cached EXCEPT
                                     !.promise = [attempt |-> connectCalls + 1,
                                                  state |-> "pending"]]
                    /\ connectCalls' = connectCalls + 1
               ELSE UNCHANGED <<cached, connectCalls>>
            /\ callers' = [callers EXCEPT ![c].pc = "awaiting"]
    /\ UNCHANGED notDbVars

\* The promise of mongoose.connect is fulfilled with the connection.
ConnectFulfilled ==
    /\ cached.promise.state = "pending"
    /\ cached' = [cached EXCEPT !.promise.state = "fulfilled"]
    /\ UNCHANGED <<connectCalls, callers>>
    /\ UNCHANGED notDbVars

\* The promise of mongoose.connect is rejected.
ConnectRejected ==
    /\ cached.promise.state = "pending"
    /\ cached' = [cached EXCEPT !.promise.state = "rejected"]
    /\ UNCHANGED <<connectCalls, callers>>
    /\ UNCHANGED notDbVars

\* cached.conn = await cached.promise; return cached.conn: the call goes on
\* after its await, or throws when the promise was rejected.
ConnectDBResumes(c) ==
    /\ callers[c].pc = "awaiting"
    /\ cached.promise.state \in {"fulfilled", "rejected"}
    /\ IF cached.promise.state = "fulfilled"
       THEN /\ cached' = [cached EXCEPT !.conn = cached.promise.attempt]
            /\ callers' = [callers EXCEPT
                              ![c] = [pc |-> "returned", value |-> cached.promise.attempt]]
       ELSE /\ callers' = [callers EXCEPT ![c].pc = "threw"]
            /\ UNCHANGED cached
    /\ UNCHANGED connectCalls
    /\ UNCHANGED notDbVars

\* The function that called connectDB is invoked again in the same process.
InvokedAgain(c) ==
    /\ callers[c].pc \in {"returned", "threw"}
    /\ callers' = [callers EXCEPT ![c] = [pc |-> "idle", value |-> 0]]
    /\ UNCHANGED <<cached, connectCalls>>
    /\ UNCHANGED notDbVars

\* A process that has just loaded the module.
DbInit ==
    /\ ServerIdle /\ ChatIdle /\ FibIdle /\ DbIdle
    /\ config = NoConfig
    /\ generated = NoReply
    /\ scenario = NoScenario
    /\ foundBlanks = <<>>
    /\ idMap = <<>>
    /\ pc = "Idle"
    /\ view = "landing"
    /\ activeScenario = FirstScenario
    /\ isGenerating = FALSE

DbNext ==
    \/ \E c \in Callers :
           \/ ConnectDB(c)
           \/ ConnectDBResumes(c)
           \/ InvokedAgain(c)
    \/ ConnectFulfilled
    \/ ConnectRejected

DbSpec == DbInit /\ [][DbNext]_vars

----------------------------------------------------------------------------
\* C30: one connection attempt per process

\* mongoose.connect was called at most once, every call that returned
\* returned the connection of that attempt, and the cached connection is that
\* connection.
OneAttempt ==
    /\ connectCalls <= 1
    /\ \A c, d \in Callers :
           (callers[c].pc = "returned" /\ callers[d].pc = "returned")
               => (callers[c].value = callers[d].value /\ callers[c].value # 0)
    /\ cached.conn # 0 =>
           (cached.promise.state = "fulfilled" /\ cached.conn = cached.promise.attempt)

\* After the attempt failed no step calls mongoose.connect or replaces the
\* rejected promise, and a call that was awaiting it throws.
NoRetryStep ==
    cached.promise.state = "rejected" =>
        /\ cached' = cached
        /\ connectCalls' = connectCalls
        /\ \A c \in Callers : callers'[c].pc # "returned"

\* C30: over every interleaving of concurrent calls of connectDB,
\* mongoose.connect is invoked at most once per process, every call resolves
\* to the same connection once the attempt has succeeded, and a failed attempt
\* is never retried by a later call.
C30_OneConnectionAttempt == []OneAttempt /\ [][NoRetryStep]_vars

\* C30 witness: four calls overlapped, one attempt was made and every call
\* returned its connection.
C30_Witness ==
    /\ connectCalls = 1
    /\ cached.conn = 1
    /\ \A c \in Callers : callers[c].pc = "returned" /\ callers[c].value = 1

----------------------------------------------------------------------------
\* The server: scores, registration, persistence

\* The score of a document is round(((correct + 0.5 * partial) / total) * 100)
\* for the steps of the document, and an integer between 0 and 100: with
\* n = 100 * (2 * correct + partial) and d = 2 * total, the score s is the
\* integer with (2s - 1) * d <= 2n < (2s + 1) * d.
ScoreIsRoundedPercentage(doc) ==
    LET n == 100 * (2 * CountTrue([k \in DOMAIN doc.steps |-> CountsAsCorrect(doc.steps[k])])
                      + CountTrue([k \in DOMAIN doc.steps |-> CountsAsPartial(doc.steps[k])]))
        d == 2 * Len(doc.steps)
    IN  /\ ~doc.score.isNaN
        /\ doc.score.value \in 0..100
        /\ (2 * doc.score.value - 1) * d <= 2 * n
        /\ 2 * n < (2 * doc.score.value + 1) * d

C24_OneUserPerEmail ==
    \A i, j \in 1..Len(users) : users[i].email = users[j].email => i = j

\* A step of the server keeps the stored TestResults: it leaves them alone, or
\* a submit answered 201 has added its one document at the end. A submit
\* answered 400 and a step of a read route leave the store as it is.
AppendOnlyStep ==
    /\ \/ tests' = tests
       \/ \E r \in Requests :
              /\ reqs[r].kind = "submit"
              /\ reqs[r].status # 201
              /\ reqs'[r].status = 201
              /\ tests' = Append(tests, reqs[r].doc)
    /\ \A r \in Requests :
           (reqs'[r].kind = "submit" /\ reqs[r].status # 201 /\ reqs'[r].status = 201)
               => /\ Len(tests') = Len(tests) + 1
                  /\ SubSeq(tests', 1, Len(tests)) = tests
    /\ \A r \in Requests :
           (reqs'[r].kind = "submit" /\ reqs[r].status # 400 /\ reqs'[r].status = 400)
               => tests' = tests
    /\ \A r \in Requests :
           (reqs'[r].kind = "read" /\ reqs'[r] # reqs[r])
               => (tests' = tests /\ users' = users)

\* C25: persistence of assessments is append-only: a successful submit adds
\* exactly one TestResult and changes no other, a submit rejected with 400
\* stores nothing, and the read routes leave the store unchanged.
C25_AppendOnly == [][AppendOnlyStep]_vars

\* C25 witness: a TestResult was stored before, a second submit has just been
\* stored after it, and nothing else is in flight.
C25_Witness ==
    /\ Len(tests) = 2
    /\ tests[1] # tests[2]
    /\ \A r \in Requests : reqs[r].kind = "submit" /\ reqs[r].status = 201

\* C28: for step results graded in three tiers, the score App computes for the
\* report equals the score the server, Express route or serverless handler,
\* computes for the same submission and persists.
C28_SameScore ==
    reportData # NoReport =>
        LET q == reqs[reportData.req]
        IN  /\ (q.pc = "creating" \/ q.status = 201) => q.doc.score = reportData.score
            /\ q.status = 201 =>
                   \E i \in 1..Len(tests) :
                       /\ tests[i].steps = reportData.steps
                       /\ tests[i].score = reportData.score

\* C28 witness: the report shows 50 for one correct, one partial and one
\* incorrect step, and the serverless handler has stored the submission.
C28_Witness ==
    /\ reportData # NoReport
    /\ reportData.state = "shown"
    /\ reportData.steps = <<GradedCorrect, GradedPartial, GradedIncorrect>>
    /\ reportData.score = Num(50)
    /\ reqs[reportData.req].via = "serverless"
    /\ reqs[reportData.req].status = 201

====
